---- MODULE Spec2Model ----
(***************************************************************************)
(* Transaction lifecycle of the SDK: one transaction object (of one of the *)
(* three variants in the tree) driven by its callers through setters,      *)
(* freeze_with, sign, execute, to_proto and is_signed_by.                  *)
(*                                                                         *)
(* Python values are encoded as follows.  None is NoneVal for fields that  *)
(* hold identifiers and NoneRec for fields that hold structured values.    *)
(* SerializeToString() is injective on the messages built here, so a       *)
(* serialized message is represented by the record of its fields.          *)
(* A raised exception is a result whose err field is not NoErr; the tx     *)
(* field of such a result holds the assignments made before the raise.     *)
(***************************************************************************)
EXTENDS Integers, Sequences, FiniteSets, TLC

VARIABLES
    tx,          \* the fields of the transaction object
    submitted,   \* the envelopes handed to the channel, in order
    exec_signs,  \* history: pairs appended inside execute, per operator key
    last,        \* the latest call: its name, argument and outcome
    pid,         \* the latest PendingAirdropId call: arguments and outcome
    answers,     \* what the client answered during the latest call, when
                 \* that was a pause execute, and whether the call printed
    rc,          \* the latest read of a TransactionReceipt and its outcome
    ky,          \* the latest use of the key classes and its outcome
    heap,        \* the list objects: their elements, which of them is the
                 \* transaction's own and which the caller holds
    adders       \* the add_pending_airdrop_ids calls in progress, per thread

vars == <<tx, submitted, exec_signs, last, pid, answers, rc, ky, heap, adders>>

NoneVal == "None"
NoneRec == [none |-> TRUE]
NoErr == ""

\* ---------------------------------------------------------------- bounds
MaxSigs == 2
MaxSubmits == 2

\* readings of the clock, used only inside generated transaction IDs
Times == {1}

\* ------------------------------------------------------- program constants
\* amounts above 2^31 are written as giga * 10^9 + units
Fee(g, u) == [giga |-> g, units |-> u]

transaction_valid_duration == 120

MAX_IDS == 10

MIN_IDS == 1

default_transaction_fee(variant) ==
    IF variant = "pause" THEN Fee(3, 0) ELSE Fee(0, 2000000)

ImmutableMsg == "Transaction is immutable; it has been frozen."
OperatorMsg == "Operator account ID is not set."
NodeMsg == "Node account ID is not set."
TokenIdMsg == "Token ID is required for pausing a token."
AssociateMsg == "Account ID and token IDs must be set"
TooManyMsg == "Up to 10 airdrops can be claimed at once"
TooFewMsg == "You must claim at least 1 airdrop"
DuplicateMsg == "Duplicate airdrop IDs are not allowed."
ToProtoMsg == "Transaction must be signed before calling to_proto()"
DeletedMsg == "Cannot pause a deleted token."
PauseKeyMsg == "Token has no valid pause key and cannot be paused."
\* ResponseCode: the number of a precheck code and its text in an f-string
ResponseCodeText(name) ==
    IF name = "INVALID_SIGNATURE" THEN "7" ELSE "12"

\* f"Error during transaction submission: {error_code} ({error_message})"
PrecheckMsgOf(name) ==
    "Error during transaction submission: " \o ResponseCodeText(name)
        \o " (" \o name \o ")"

PrecheckMsg == PrecheckMsgOf("INVALID_SIGNATURE")
TransportMsg == "transport error"
GenerateMsg == "Operator account ID must be set to generate transaction ID."
NoOperatorKeyMsg == "'NoneType' object has no attribute 'public_key'"

\* ------------------------------------------------------------ collaborators
\* The client: operator identity, operator key, node of the network
\* selection.  A client may lack an operator or a node.
Clients ==
    { [name |-> "c1", operator_account_id |-> "acc1",
       operator_private_key |-> "kOp", node_account_id |-> "n1"],
      [name |-> "c2", operator_account_id |-> NoneVal,
       operator_private_key |-> NoneVal, node_account_id |-> "n1"],
      [name |-> "c3", operator_account_id |-> "acc1",
       operator_private_key |-> "kOp", node_account_id |-> NoneVal] }

OperatorKeys == {c.operator_private_key : c \in Clients} \ {NoneVal}

\* client.generate_transaction_id()
generate_transaction_id(c, now) ==
    IF c.operator_account_id = NoneVal
    THEN [err |-> GenerateMsg, id |-> NoneRec]
    ELSE [err |-> NoErr,
          id |-> [accountID |-> c.operator_account_id, validStart |-> now]]

\* Keys the callers sign with.
Keys == {"kA", "kOp"}

\* The family of a key the callers sign with (is_ed25519 / is_ecdsa): the
\* operator signs with an Ed25519 key, the other caller with an ECDSA key on
\* secp256k1.
KeyFamily(k) == IF k = "kA" THEN "ECDSA_secp256k1" ELSE "ed25519"

\* private_key.public_key().public_bytes(Raw, Raw)
public_bytes(k) == [pub |-> k]

\* private_key.sign(message): deterministic, bound to the key and the message
private_key_sign(k, msg) == [signer |-> k, msg |-> msg]

\* Values the callers assign and pass.
ExplicitIds == {[accountID |-> "acc0", validStart |-> 0]}
ExplicitNodes == {"n0"}
Memos == {"", "m"}
FeeVals == {NoneRec, Fee(0, 7)}
TokenIds == {"tok1", "tok2"}
AssociationDetails ==
    { [account_id |-> "a1", token_ids |-> <<"tok2", "tok1">>],
      [account_id |-> "a1", token_ids |-> <<"tok1">>],
      [account_id |-> NoneVal, token_ids |-> <<"tok1">>],
      [account_id |-> "a1", token_ids |-> <<>>] }

\* --------------------------------------------------------- PendingAirdropId
\* AccountId, TokenId and NftId are values compared by their fields.
TokenId(i) == [num |-> i]

NftId(i) == [token_id |-> TokenId(i), serial_number |-> i]

SenderMsg == "sender_id must not be None"
ReceiverMsg == "receiver_id must not be None"
ExactlyOneMsg == "Exactly one of token_id or nft_id must be set."
BothTypesMsg == "Protobuf contains both token types, only one is allowed."
NeitherTypeMsg == "Protobuf contains neither token type."
ToProtoIdMsg == "PendingAirdropId must have a token or NFT set."

\* __post_init__ that accepts token_id and nft_id together
post_init_allow_both(sender_id, receiver_id, token_id, nft_id) ==
    IF sender_id = NoneVal THEN SenderMsg
    ELSE IF receiver_id = NoneVal THEN ReceiverMsg
    ELSE IF token_id = NoneRec /\ nft_id = NoneRec THEN ExactlyOneMsg
    ELSE NoErr

\* PendingAirdropId.__post_init__: the error it raises, NoErr when it returns
post_init(sender_id, receiver_id, token_id, nft_id) ==
    IF sender_id = NoneVal THEN SenderMsg
    ELSE IF receiver_id = NoneVal THEN ReceiverMsg
    ELSE IF (token_id = NoneRec) = (nft_id = NoneRec) THEN ExactlyOneMsg
    ELSE NoErr

\* PendingAirdropId(sender_id, receiver_id, token_id, nft_id): the frozen
\* dataclass.  obj tells two objects with equal fields apart; it is no field
\* of the dataclass and takes no part in == or hash.
new_PendingAirdropId(sender_id, receiver_id, token_id, nft_id, obj) ==
    LET e == post_init(sender_id, receiver_id, token_id, nft_id) IN
    IF e # NoErr THEN [err |-> e, val |-> NoneRec]
    ELSE [err |-> NoErr,
          val |-> [sender_id |-> sender_id, receiver_id |-> receiver_id,
                   token_id |-> token_id, nft_id |-> nft_id, obj |-> obj]]

\* the fields the generated __eq__ and __hash__ compare
FieldsOf(id) == <<id.sender_id, id.receiver_id, id.token_id, id.nft_id>>

\* A wire PendingAirdropId: the two accounts are always readable, each of the
\* two token fields is present or not (NoneRec: HasField is false).
WireId(sender_id, receiver_id, fungible_token_type, non_fungible_token) ==
    [sender_id |-> sender_id, receiver_id |-> receiver_id,
     fungible_token_type |-> fungible_token_type,
     non_fungible_token |-> non_fungible_token]

PendingAirdropId_from_proto(proto, obj) ==
    LET has_fungible == proto.fungible_token_type # NoneRec
        has_nft == proto.non_fungible_token # NoneRec
    IN  IF has_fungible /\ has_nft
        THEN [err |-> BothTypesMsg, val |-> NoneRec]
        ELSE IF ~has_fungible /\ ~has_nft
        THEN [err |-> NeitherTypeMsg, val |-> NoneRec]
        ELSE new_PendingAirdropId(proto.sender_id, proto.receiver_id,
                                  proto.fungible_token_type,
                                  proto.non_fungible_token, obj)

PendingAirdropId_to_proto(id) ==
    IF id.token_id # NoneRec
    THEN [err |-> NoErr,
          proto |-> WireId(id.sender_id, id.receiver_id, id.token_id, NoneRec)]
    ELSE IF id.nft_id # NoneRec
    THEN [err |-> NoErr,
          proto |-> WireId(id.sender_id, id.receiver_id, NoneRec, id.nft_id)]
    ELSE [err |-> ToProtoIdMsg, proto |-> NoneRec]

\* the pending airdrop of fungible token i, as object 1
PendingAirdropId(i) ==
    new_PendingAirdropId("s", "r", TokenId(i), NoneRec, 1).val

\* another object with the same fields
Copy(id) == [id EXCEPT !.obj = 2]

IdRange(a, b) == [i \in 1..(b - a + 1) |-> PendingAirdropId(a + i - 1)]

\* lists passed to add_pending_airdrop_ids
AddInputs ==
    { IdRange(1, 1), IdRange(2, 10), IdRange(11, 11),
      <<PendingAirdropId(12), PendingAirdropId(12)>>,
      <<PendingAirdropId(12), Copy(PendingAirdropId(12))>> }

\* lists passed to the constructor
InitLists == { <<>>, IdRange(1, 1) }

\* the constructor stores any list it is given
AnyInitLists ==
    InitLists \cup
    { <<Copy(PendingAirdropId(1))>>, IdRange(1, 11),
      <<PendingAirdropId(12), Copy(PendingAirdropId(12))>> }

\* wire lists passed to TokenClaimAirdropTransaction._from_proto
WireOf(id) == PendingAirdropId_to_proto(id).proto

FromProtoInputs ==
    { <<>>,
      <<WireOf(PendingAirdropId(12)), WireOf(PendingAirdropId(12))>>,
      <<WireId("s", "r", NoneRec, NoneRec)>> }

Variants == {"pause", "claim", "associate"}

\* ------------------------------------------------------------------ results
Ok(t, ret) ==
    [tx |-> t, err |-> NoErr, ret |-> ret, asked |-> {}, sent |-> <<>>,
     fetched |-> 0, signed |-> FALSE, printed |-> FALSE]

Raise(t, e) ==
    [tx |-> t, err |-> e, ret |-> "raise", asked |-> {}, sent |-> <<>>,
     fetched |-> 0, signed |-> FALSE, printed |-> FALSE]

Frozen(t) == t.transaction_body_bytes # NoneRec

\* ------------------------------------------------------------- Transaction
require_not_frozen(t) ==
    IF t.transaction_body_bytes # NoneRec THEN ImmutableMsg ELSE NoErr

set_transaction_memo(t, m) ==
    LET e == require_not_frozen(t) IN
    IF e # NoErr THEN Raise(t, e)
    ELSE Ok([t EXCEPT !.memo = m], "self")

\* build_base_transaction_body without the check of the node account ID
build_base_no_node_check(t, now) ==
    IF t.transaction_id = NoneRec /\ t.operator_account_id = NoneVal
    THEN [err |-> OperatorMsg, body |-> NoneRec]
    ELSE [err |-> NoErr,
          body |->
            [transactionID |->
                IF t.transaction_id = NoneRec
                THEN [accountID |-> t.operator_account_id, validStart |-> now]
                ELSE t.transaction_id,
             nodeAccountID |-> t.node_account_id,
             transactionFee |->
                IF t.transaction_fee = NoneRec \/ t.transaction_fee = Fee(0, 0)
                THEN default_transaction_fee(t.variant)
                ELSE t.transaction_fee,
             transactionValidDuration |-> transaction_valid_duration,
             generateRecord |-> FALSE,
             memo |-> t.memo]]

build_base_transaction_body(t, now) ==
    IF t.transaction_id = NoneRec /\ t.operator_account_id = NoneVal
    THEN [err |-> OperatorMsg, body |-> NoneRec]
    ELSE IF t.node_account_id = NoneVal
    THEN [err |-> NodeMsg, body |-> NoneRec]
    ELSE [err |-> NoErr,
          body |->
            [transactionID |->
                IF t.transaction_id = NoneRec
                THEN [accountID |-> t.operator_account_id, validStart |-> now]
                ELSE t.transaction_id,
             nodeAccountID |-> t.node_account_id,
             transactionFee |->
                IF t.transaction_fee = NoneRec \/ t.transaction_fee = Fee(0, 0)
                THEN default_transaction_fee(t.variant)
                ELSE t.transaction_fee,
             transactionValidDuration |-> transaction_valid_duration,
             generateRecord |-> FALSE,
             memo |-> t.memo]]

\* transaction_body.<field>.CopyFrom(<variant body>)
WithData(base, data) ==
    IF base.err # NoErr THEN base
    ELSE [err |-> NoErr,
          body |-> [transactionID |-> base.body.transactionID,
                    nodeAccountID |-> base.body.nodeAccountID,
                    transactionFee |-> base.body.transactionFee,
                    transactionValidDuration |->
                        base.body.transactionValidDuration,
                    generateRecord |-> base.body.generateRecord,
                    memo |-> base.body.memo,
                    data |-> data]]

\* --------------------------------------------------- TokenPauseTransaction
\* validate_token_id that accepts a missing token id
validate_token_id_any(token_id) == NoErr

validate_token_id(token_id) ==
    IF token_id = NoneVal THEN TokenIdMsg ELSE NoErr

set_token_id(t, token_id) ==
    LET e == require_not_frozen(t) IN
    IF e # NoErr THEN Raise(t, e)
    ELSE Ok([t EXCEPT !.token_id = token_id], "self")

pause_build_transaction_body(t, now) ==
    LET e == validate_token_id(t.token_id) IN
    IF e # NoErr THEN [err |-> e, body |-> NoneRec]
    ELSE WithData(build_base_transaction_body(t, now),
                  [token_pause |-> [token |-> t.token_id]])

\* -------------------------------------------- TokenClaimAirdropTransaction
\* set(ids): one element per class of == of the dataclass
SeqToSet(s) == {FieldsOf(s[i]) : i \in 1..Len(s)}

\* _validate_all without the test of the length
validate_all_no_max(ids) ==
    IF Cardinality(SeqToSet(ids)) # Len(ids) THEN DuplicateMsg
    ELSE NoErr

\* _validate_all that tells duplicates by object identity
validate_all_by_identity(ids) ==
    IF Len(ids) > MAX_IDS THEN TooManyMsg
    ELSE IF Cardinality({ids[i] : i \in 1..Len(ids)}) # Len(ids)
    THEN DuplicateMsg
    ELSE NoErr

validate_all(ids) ==
    IF Len(ids) > MAX_IDS THEN TooManyMsg
    ELSE IF Cardinality(SeqToSet(ids)) # Len(ids) THEN DuplicateMsg
    ELSE NoErr

\* _validate_final without the test of the lower bound
validate_final_no_min(t) == validate_all(t.pending_airdrop_ids)

validate_final(t) ==
    IF Len(t.pending_airdrop_ids) < MIN_IDS THEN TooFewMsg
    ELSE validate_all(t.pending_airdrop_ids)

\* add_pending_airdrop_ids that puts the new IDs in front of the list
add_pending_airdrop_ids_in_front(t, ids) ==
    LET e == require_not_frozen(t)
        candidate == ids \o t.pending_airdrop_ids
    IN  IF e # NoErr THEN Raise(t, e)
        ELSE IF validate_all(candidate) # NoErr
        THEN Raise(t, validate_all(candidate))
        ELSE Ok([t EXCEPT !.pending_airdrop_ids = candidate], "self")

add_pending_airdrop_ids(t, ids) ==
    LET e == require_not_frozen(t)
        candidate == t.pending_airdrop_ids \o ids
    IN  IF e # NoErr THEN Raise(t, e)
        ELSE IF validate_all(candidate) # NoErr
        THEN Raise(t, validate_all(candidate))
        ELSE Ok([t EXCEPT !.pending_airdrop_ids = candidate], "self")

\* _pending_airdrop_ids_to_proto; every stored ID has a token or an NFT
pending_airdrop_ids_to_proto(t) ==
    [i \in 1..Len(t.pending_airdrop_ids) |->
        PendingAirdropId_to_proto(t.pending_airdrop_ids[i]).proto]

claim_build_transaction_body(t, now) ==
    LET e == validate_final(t) IN
    IF e # NoErr THEN [err |-> e, body |-> NoneRec]
    ELSE WithData(build_base_transaction_body(t, now),
                  [tokenClaimAirdrop |->
                      [pending_airdrops |-> pending_airdrop_ids_to_proto(t)]])

\* TokenClaimAirdropTransaction._from_proto: decodes every element, stores
\* the list, validates it afterwards
claim_from_proto(t, proto) ==
    LET decoded == [i \in 1..Len(proto) |->
                        PendingAirdropId_from_proto(proto[i], 1)]
        failed == {i \in 1..Len(proto) : decoded[i].err # NoErr}
        pending_airdrops == [i \in 1..Len(proto) |-> decoded[i].val]
        t1 == [t EXCEPT !.pending_airdrop_ids = pending_airdrops]
    IN  IF failed # {}
        THEN Raise(t, decoded[CHOOSE i \in failed :
                                 \A j \in failed : i <= j].err)
        ELSE IF validate_all(pending_airdrops) # NoErr
        THEN Raise(t1, validate_all(pending_airdrops))
        ELSE Ok(t1, "self")

\* ------------------------------------------------ TokenAssociateTransaction
\* set_association_details assigns both fields and returns None.
set_association_details(t, account_id, token_ids) ==
    Ok([t EXCEPT !.account_id = account_id, !.token_ids = token_ids], "None")

\* Transaction.build_base_transaction_body(specific_tx_body), the form of the
\* base builder this variant calls: the common fields with the variant's body
\* attached.
build_base_transaction_body_with(t, now, specific_tx_body) ==
    WithData(build_base_transaction_body(t, now), specific_tx_body)

\* build_transaction_body that looks at the account ID only
associate_build_no_token_check(t, now) ==
    IF t.account_id = NoneVal
    THEN [err |-> AssociateMsg, body |-> NoneRec]
    ELSE build_base_transaction_body_with(
            t, now,
            [tokenAssociate |->
                [account |-> t.account_id, tokens |-> t.token_ids]])

associate_build_transaction_body(t, now) ==
    IF t.account_id = NoneVal \/ t.token_ids = <<>>
    THEN [err |-> AssociateMsg, body |-> NoneRec]
    ELSE build_base_transaction_body_with(
            t, now,
            [tokenAssociate |->
                [account |-> t.account_id, tokens |-> t.token_ids]])

build_transaction_body(t, now) ==
    CASE t.variant = "pause" -> pause_build_transaction_body(t, now)
      [] t.variant = "claim" -> claim_build_transaction_body(t, now)
      [] OTHER -> associate_build_transaction_body(t, now)

\* ------------------------------------------- Transaction: sign and friends
\* sign that builds the body on every call, frozen or not
sign_rebuild(t, private_key, now) ==
    LET b == build_transaction_body(t, now)
    IN  IF b.err # NoErr THEN Raise(t, b.err)
        ELSE LET sig_pair ==
                    [pubKeyPrefix |-> public_bytes(private_key),
                     ed25519 |-> private_key_sign(private_key, b.body)]
             IN  Ok([t EXCEPT !.transaction_body_bytes = b.body,
                              !.signature_map = Append(@, sig_pair)],
                    "self")

\* sign that skips the append when the key already has a pair
sign_dedup(t, private_key, now) ==
    LET b == IF t.transaction_body_bytes = NoneRec
             THEN build_transaction_body(t, now)
             ELSE [err |-> NoErr, body |-> t.transaction_body_bytes]
    IN  IF b.err # NoErr THEN Raise(t, b.err)
        ELSE LET sig_pair ==
                    [pubKeyPrefix |-> public_bytes(private_key),
                     ed25519 |-> private_key_sign(private_key, b.body)]
                 present ==
                    \E i \in 1..Len(t.signature_map) :
                        t.signature_map[i].pubKeyPrefix = sig_pair.pubKeyPrefix
             IN  Ok([t EXCEPT !.transaction_body_bytes = b.body,
                              !.signature_map =
                                  IF present THEN @ ELSE Append(@, sig_pair)],
                    "self")

\* sign that, when the body cannot be built, signs empty bytes and returns
sign_swallow(t, private_key, now) ==
    LET b == IF t.transaction_body_bytes = NoneRec
             THEN build_transaction_body(t, now)
             ELSE [err |-> NoErr, body |-> t.transaction_body_bytes]
        sig_pair ==
            [pubKeyPrefix |-> public_bytes(private_key),
             ed25519 |-> private_key_sign(private_key, b.body)]
    IN  IF b.err # NoErr
        THEN Ok([t EXCEPT !.signature_map = Append(@, sig_pair)], "self")
        ELSE Ok([t EXCEPT !.transaction_body_bytes = b.body,
                          !.signature_map = Append(@, sig_pair)],
                "self")

\* sign that signs the body it builds without storing its bytes
sign_no_store(t, private_key, now) ==
    LET b == IF t.transaction_body_bytes = NoneRec
             THEN build_transaction_body(t, now)
             ELSE [err |-> NoErr, body |-> t.transaction_body_bytes]
    IN  IF b.err # NoErr THEN Raise(t, b.err)
        ELSE LET sig_pair ==
                    [pubKeyPrefix |-> public_bytes(private_key),
                     ed25519 |-> private_key_sign(private_key, b.body)]
             IN  Ok([t EXCEPT !.signature_map = Append(@, sig_pair)],
                    "self")

sign(t, private_key, now) ==
    LET b == IF t.transaction_body_bytes = NoneRec
             THEN build_transaction_body(t, now)
             ELSE [err |-> NoErr, body |-> t.transaction_body_bytes]
    IN  IF b.err # NoErr THEN Raise(t, b.err)
        ELSE LET sig_pair ==
                    [pubKeyPrefix |-> public_bytes(private_key),
                     ed25519 |-> private_key_sign(private_key, b.body)]
             IN  Ok([t EXCEPT !.transaction_body_bytes = b.body,
                              !.signature_map = Append(@, sig_pair)],
                    "self")

to_proto(t) ==
    IF t.transaction_body_bytes = NoneRec
    THEN [err |-> ToProtoMsg, proto |-> NoneRec]
    ELSE [err |-> NoErr,
          proto |-> [signedTransactionBytes |->
                        [bodyBytes |-> t.transaction_body_bytes,
                         sigMap |-> t.signature_map]]]

\* is_signed_by that looks at the first pair only
is_signed_by_first(t, public_key_bytes) ==
    /\ Len(t.signature_map) > 0
    /\ t.signature_map[1].pubKeyPrefix = public_key_bytes

is_signed_by(t, public_key_bytes) ==
    \E i \in 1..Len(t.signature_map) :
        t.signature_map[i].pubKeyPrefix = public_key_bytes

\* freeze_with that builds the body with the generated transaction ID but
\* never stores the ID in the transaction
freeze_with_local_id(t, c, now) ==
    IF t.transaction_body_bytes # NoneRec THEN Ok(t, "self")
    ELSE
    LET needId == t.transaction_id = NoneRec
        needNode == t.node_account_id = NoneVal
        g == generate_transaction_id(c, now)
        askedId == IF needId THEN {"generate_transaction_id"} ELSE {}
        askedNode == IF needNode THEN {"node_account_id"} ELSE {}
    IN  IF needId /\ g.err # NoErr
        THEN [Raise(t, g.err) EXCEPT !.asked = askedId]
        ELSE
        LET t0 == [t EXCEPT
                     !.node_account_id =
                         IF needNode THEN c.node_account_id ELSE @]
            t1 == [t0 EXCEPT !.transaction_id = IF needId THEN g.id ELSE @]
            b == build_transaction_body(t1, now)
        IN  IF b.err # NoErr
            THEN [Raise(t0, b.err) EXCEPT !.asked = askedId \cup askedNode]
            ELSE [Ok([t0 EXCEPT !.transaction_body_bytes = b.body], "self")
                    EXCEPT !.asked = askedId \cup askedNode]

\* freeze_with that asks the client for a transaction ID before it looks at
\* the body bytes
freeze_with_regen(t, c, now) ==
    LET g == generate_transaction_id(c, now)
        tg == IF g.err = NoErr THEN [t EXCEPT !.transaction_id = g.id] ELSE t
    IN
    IF t.transaction_body_bytes # NoneRec
    THEN [Ok(tg, "self") EXCEPT !.asked = {"generate_transaction_id"}]
    ELSE
    LET needId == t.transaction_id = NoneRec
        needNode == t.node_account_id = NoneVal
        askedId == IF needId THEN {"generate_transaction_id"} ELSE {}
        askedNode == IF needNode THEN {"node_account_id"} ELSE {}
    IN  IF needId /\ g.err # NoErr
        THEN [Raise(t, g.err) EXCEPT !.asked = askedId]
        ELSE
        LET t1 == [t EXCEPT
                     !.transaction_id = IF needId THEN g.id ELSE @,
                     !.node_account_id =
                         IF needNode THEN c.node_account_id ELSE @]
            b == build_transaction_body(t1, now)
        IN  IF b.err # NoErr
            THEN [Raise(t1, b.err) EXCEPT !.asked = askedId \cup askedNode]
            ELSE [Ok([t1 EXCEPT !.transaction_body_bytes = b.body], "self")
                    EXCEPT !.asked = askedId \cup askedNode]

\* freeze_with that takes the node from the client whether or not one is set
freeze_with_overwrite_node(t, c, now) ==
    IF t.transaction_body_bytes # NoneRec THEN Ok(t, "self")
    ELSE
    LET needId == t.transaction_id = NoneRec
        g == generate_transaction_id(c, now)
        askedId == IF needId THEN {"generate_transaction_id"} ELSE {}
        askedNode == {"node_account_id"}
    IN  IF needId /\ g.err # NoErr
        THEN [Raise(t, g.err) EXCEPT !.asked = askedId]
        ELSE
        LET t1 == [t EXCEPT
                     !.transaction_id = IF needId THEN g.id ELSE @,
                     !.node_account_id = c.node_account_id]
            b == build_transaction_body(t1, now)
        IN  IF b.err # NoErr
            THEN [Raise(t1, b.err) EXCEPT !.asked = askedId \cup askedNode]
            ELSE [Ok([t1 EXCEPT !.transaction_body_bytes = b.body], "self")
                    EXCEPT !.asked = askedId \cup askedNode]

freeze_with(t, c, now) ==
    IF t.transaction_body_bytes # NoneRec THEN Ok(t, "self")
    ELSE
    LET needId == t.transaction_id = NoneRec
        needNode == t.node_account_id = NoneVal
        g == generate_transaction_id(c, now)
        askedId == IF needId THEN {"generate_transaction_id"} ELSE {}
        askedNode == IF needNode THEN {"node_account_id"} ELSE {}
    IN  IF needId /\ g.err # NoErr
        THEN [Raise(t, g.err) EXCEPT !.asked = askedId]
        ELSE
        LET t1 == [t EXCEPT
                     !.transaction_id = IF needId THEN g.id ELSE @,
                     !.node_account_id =
                         IF needNode THEN c.node_account_id ELSE @]
            b == build_transaction_body(t1, now)
        IN  IF b.err # NoErr
            THEN [Raise(t1, b.err) EXCEPT !.asked = askedId \cup askedNode]
            ELSE [Ok([t1 EXCEPT !.transaction_body_bytes = b.body], "self")
                    EXCEPT !.asked = askedId \cup askedNode]

\* ------------------------------------------------- submission to the network
\* What the network collaborators answer during one execute call: the token
\* metadata returned by client.get_token_info and the outcome of the RPC.
TokenInfos ==
    [deleted : BOOLEAN, pause_key : BOOLEAN, paused : BOOLEAN]

\* only a pause transaction fetches token metadata
InfosFor(t) ==
    IF t.variant = "pause" THEN TokenInfos
    ELSE {[deleted |-> FALSE, pause_key |-> TRUE, paused |-> FALSE]}

NetOutcomes == {"OK", "INVALID_SIGNATURE", "raise"}

\* validate_token_pause that looks at the pause key before the deleted flag
validate_token_pause_key_first(token_info) ==
    IF ~token_info.pause_key THEN PauseKeyMsg
    ELSE IF token_info.deleted THEN DeletedMsg
    ELSE NoErr

validate_token_pause(token_info) ==
    IF token_info.deleted THEN DeletedMsg
    ELSE IF ~token_info.pause_key THEN PauseKeyMsg
    ELSE NoErr

\* self.get_receipt(client): one receipt query through the client
get_receipt(t, c) == [ret |-> "receipt", fetched |-> 1]

\* _execute_transaction that submits a second time after a failed submission
pause_execute_retry(t, c, proto, token_info, net) ==
    LET e == validate_token_pause(token_info) IN
    IF e # NoErr THEN Raise(t, e)
    ELSE IF net = "raise"
    THEN [Raise(t, TransportMsg) EXCEPT !.sent = <<proto, proto>>]
    ELSE IF net # "OK"
    THEN [Raise(t, PrecheckMsgOf(net)) EXCEPT !.sent = <<proto, proto>>]
    ELSE [Ok(t, get_receipt(t, c).ret) EXCEPT
             !.sent = <<proto>>, !.fetched = get_receipt(t, c).fetched]

\* _execute_transaction that refuses a token that is already paused
pause_execute_reject_paused(t, c, proto, token_info, net) ==
    LET e == validate_token_pause(token_info) IN
    IF e # NoErr THEN Raise(t, e)
    ELSE IF token_info.paused THEN Raise(t, "Token is already paused.")
    ELSE IF net = "raise"
    THEN [Raise(t, TransportMsg) EXCEPT !.sent = <<proto>>]
    ELSE IF net # "OK"
    THEN [Raise(t, PrecheckMsgOf(net)) EXCEPT !.sent = <<proto>>]
    ELSE [Ok(t, get_receipt(t, c).ret) EXCEPT
             !.sent = <<proto>>, !.fetched = get_receipt(t, c).fetched]

\* _execute_transaction that returns the receipt whatever the precheck code
pause_execute_receipt_anyway(t, c, proto, token_info, net) ==
    LET e == validate_token_pause(token_info) IN
    IF e # NoErr THEN Raise(t, e)
    ELSE IF net = "raise"
    THEN [Raise(t, TransportMsg) EXCEPT
             !.sent = <<proto>>, !.printed = token_info.paused]
    ELSE [Ok(t, get_receipt(t, c).ret) EXCEPT
             !.sent = <<proto>>, !.fetched = get_receipt(t, c).fetched,
             !.printed = token_info.paused]

\* TokenPauseTransaction._execute_transaction
pause_execute_transaction(t, c, proto, token_info, net) ==
    LET e == validate_token_pause(token_info)
        printed == token_info.paused
    IN
    IF e # NoErr THEN Raise(t, e)
    ELSE IF net = "raise"
    THEN [Raise(t, TransportMsg) EXCEPT
             !.sent = <<proto>>, !.printed = printed]
    ELSE IF net # "OK"
    THEN [Raise(t, PrecheckMsgOf(net)) EXCEPT
             !.sent = <<proto>>, !.printed = printed]
    ELSE [Ok(t, get_receipt(t, c).ret) EXCEPT
             !.sent = <<proto>>, !.fetched = get_receipt(t, c).fetched,
             !.printed = printed]

\* The other variants submit through the channel method of their kind and
\* pass the response on; a transport or precheck failure is propagated.
channel_execute_transaction(t, c, proto, net) ==
    IF net = "raise"
    THEN [Raise(t, TransportMsg) EXCEPT !.sent = <<proto>>]
    ELSE IF net # "OK"
    THEN [Raise(t, PrecheckMsgOf(net)) EXCEPT !.sent = <<proto>>]
    ELSE [Ok(t, "response") EXCEPT !.sent = <<proto>>]

execute_transaction(t, c, proto, token_info, net) ==
    IF t.variant = "pause"
    THEN pause_execute_transaction(t, c, proto, token_info, net)
    ELSE channel_execute_transaction(t, c, proto, net)

\* execute that signs with the operator key without looking at the pairs
execute_always_sign(t, c, now, token_info, net) ==
    LET f == IF t.transaction_body_bytes = NoneRec
             THEN freeze_with(t, c, now) ELSE Ok(t, "self")
    IN  IF f.err # NoErr THEN f
        ELSE
        LET t1 == IF f.tx.operator_account_id = NoneVal
                  THEN [f.tx EXCEPT
                          !.operator_account_id = c.operator_account_id]
                  ELSE f.tx
        IN  IF c.operator_private_key = NoneVal
            THEN [Raise(t1, NoOperatorKeyMsg) EXCEPT !.asked = f.asked]
            ELSE
            LET t2 == sign(t1, c.operator_private_key, now).tx
                r == execute_transaction(t2, c, to_proto(t2).proto,
                                         token_info, net)
            IN  [r EXCEPT !.asked = f.asked, !.signed = TRUE]

\* execute that serializes the envelope before the operator signs
execute_serialize_first(t, c, now, token_info, net) ==
    LET f == IF t.transaction_body_bytes = NoneRec
             THEN freeze_with(t, c, now) ELSE Ok(t, "self")
    IN  IF f.err # NoErr THEN f
        ELSE
        LET t1 == IF f.tx.operator_account_id = NoneVal
                  THEN [f.tx EXCEPT
                          !.operator_account_id = c.operator_account_id]
                  ELSE f.tx
        IN  IF c.operator_private_key = NoneVal
            THEN [Raise(t1, NoOperatorKeyMsg) EXCEPT !.asked = f.asked]
            ELSE
            LET autosign ==
                    ~is_signed_by(t1, public_bytes(c.operator_private_key))
                t2 == IF autosign
                      THEN sign(t1, c.operator_private_key, now).tx
                      ELSE t1
                r == execute_transaction(t2, c, to_proto(t1).proto,
                                         token_info, net)
            IN  [r EXCEPT !.asked = f.asked, !.signed = autosign]

\* execute that signs again whenever the transaction was executed before
execute_sign_again(t, c, now, token_info, net) ==
    LET f == IF t.transaction_body_bytes = NoneRec
             THEN freeze_with(t, c, now) ELSE Ok(t, "self")
    IN  IF f.err # NoErr THEN f
        ELSE
        LET t1 == IF f.tx.operator_account_id = NoneVal
                  THEN [f.tx EXCEPT
                          !.operator_account_id = c.operator_account_id]
                  ELSE f.tx
        IN  IF c.operator_private_key = NoneVal
            THEN [Raise(t1, NoOperatorKeyMsg) EXCEPT !.asked = f.asked]
            ELSE
            LET autosign ==
                    \/ ~is_signed_by(t1, public_bytes(c.operator_private_key))
                    \/ f.tx.operator_account_id # NoneVal
                t2 == IF autosign
                      THEN sign(t1, c.operator_private_key, now).tx
                      ELSE t1
                r == execute_transaction(t2, c, to_proto(t2).proto,
                                         token_info, net)
            IN  [r EXCEPT !.asked = f.asked, !.signed = autosign]

\* execute that takes the operator's pair back when the submission fails
execute_rollback(t, c, now, token_info, net) ==
    LET f == IF t.transaction_body_bytes = NoneRec
             THEN freeze_with(t, c, now) ELSE Ok(t, "self")
    IN  IF f.err # NoErr THEN f
        ELSE
        LET t1 == IF f.tx.operator_account_id = NoneVal
                  THEN [f.tx EXCEPT
                          !.operator_account_id = c.operator_account_id]
                  ELSE f.tx
        IN  IF c.operator_private_key = NoneVal
            THEN [Raise(t1, NoOperatorKeyMsg) EXCEPT !.asked = f.asked]
            ELSE
            LET autosign ==
                    ~is_signed_by(t1, public_bytes(c.operator_private_key))
                t2 == IF autosign
                      THEN sign(t1, c.operator_private_key, now).tx
                      ELSE t1
                r == execute_transaction(t2, c, to_proto(t2).proto,
                                         token_info, net)
            IN  IF r.err # NoErr
                THEN [r EXCEPT !.tx = t1, !.asked = f.asked]
                ELSE [r EXCEPT !.asked = f.asked, !.signed = autosign]

execute(t, c, now, token_info, net) ==
    LET f == IF t.transaction_body_bytes = NoneRec
             THEN freeze_with(t, c, now) ELSE Ok(t, "self")
    IN  IF f.err # NoErr THEN f
        ELSE
        LET t1 == IF f.tx.operator_account_id = NoneVal
                  THEN [f.tx EXCEPT
                          !.operator_account_id = c.operator_account_id]
                  ELSE f.tx
        IN  IF c.operator_private_key = NoneVal
            THEN [Raise(t1, NoOperatorKeyMsg) EXCEPT !.asked = f.asked]
            ELSE
            LET autosign ==
                    ~is_signed_by(t1, public_bytes(c.operator_private_key))
                t2 == IF autosign
                      THEN sign(t1, c.operator_private_key, now).tx
                      ELSE t1
                r == execute_transaction(t2, c, to_proto(t2).proto,
                                         token_info, net)
            IN  [r EXCEPT !.asked = f.asked, !.signed = autosign]

\* ---------------------------------------------------------------- the state
NewTransaction(variant, fee, token_id, ids) ==
    [variant |-> variant,
     transaction_id |-> NoneRec,
     node_account_id |-> NoneVal,
     transaction_fee |-> fee,
     memo |-> "",
     transaction_body_bytes |-> NoneRec,
     signature_map |-> <<>>,
     operator_account_id |-> NoneVal,
     token_id |-> token_id,
     pending_airdrop_ids |-> ids,
     account_id |-> NoneVal,
     token_ids |-> <<>>]

NoCall ==
    [op |-> "init", arg |-> NoneVal, err |-> NoErr, ret |-> "None",
     asked |-> {}, sent |-> 0, fetched |-> 0, signed |-> FALSE,
     froze |-> FALSE]

\* froze: the call set the body bytes of a transaction that had none
Called(op, arg, t, r) ==
    [op |-> op, arg |-> arg, err |-> r.err, ret |-> r.ret,
     asked |-> r.asked, sent |-> Len(r.sent), fetched |-> r.fetched,
     signed |-> r.signed, froze |-> ~Frozen(t) /\ Frozen(r.tx)]

\* the latest call was not a recorded pause execute
NoAnswers ==
    [token_info |-> NoneRec, net |-> NoneVal, printed |-> FALSE]

\* the key classes not used yet
NoKey ==
    [op |-> "init", key |-> NoneRec, via |-> NoneVal, input |-> NoneRec,
     loaded |-> [err |-> NoErr, ret |-> NoneRec], data |-> NoneVal,
     other |-> NoneVal, signature |-> NoneRec, again |-> NoneRec,
     verified |-> NoErr, verified_other |-> NoErr]

\* no property of a receipt read yet
NoRead ==
    [op |-> "init", proto |-> NoneRec, err |-> NoErr, ret |-> NoneRec]

\* no PendingAirdropId call made yet
NoPid ==
    [op |-> "init", sender_id |-> NoneVal, receiver_id |-> NoneVal,
     token_id |-> NoneRec, nft_id |-> NoneRec, err |-> NoErr,
     val |-> NoneRec, proto |-> NoneRec]

\* no list object looked at: the list is the value held in tx
NoHeap == [op |-> "init", arg |-> 0, cells |-> <<>>, own |-> 0,
           passed |-> {}, got |-> {}]

\* no add_pending_airdrop_ids call in progress
NoAdders == <<>>

\* the state after the constructor of one of the variants, the claim variant
\* with one of the lists
InitOf(variants, lists) ==
    /\ \E variant \in variants, fee \in {NoneRec} :
         \/ /\ variant = "pause"
            /\ \E token_id \in TokenIds \cup {NoneVal} :
                 tx = NewTransaction(variant, fee, token_id, <<>>)
         \/ /\ variant = "claim"
            /\ \E ids \in lists :
                 tx = NewTransaction(variant, fee, NoneVal, ids)
         \/ /\ variant = "associate"
            /\ tx = NewTransaction(variant, fee, NoneVal, <<>>)
    /\ submitted = <<>>
    /\ exec_signs = [k \in OperatorKeys |-> 0]
    /\ last = NoCall
    /\ pid = NoPid
    /\ answers = NoAnswers
    /\ rc = NoRead
    /\ ky = NoKey
    /\ heap = NoHeap
    /\ adders = NoAdders

Init == InitOf(Variants, InitLists)

\* One call with result r: the object takes the fields r.tx, the channel
\* receives r.sent.
Call(op, arg, r) ==
    /\ tx' = r.tx
    /\ submitted' = submitted \o r.sent
    /\ last' = Called(op, arg, tx, r)
    /\ UNCHANGED <<pid, rc, ky, heap, adders>>

Local(op, arg, r) ==
    /\ Call(op, arg, r)
    /\ UNCHANGED exec_signs
    /\ answers' = NoAnswers

\* tx.transaction_id = ..., tx.node_account_id = ... : the callers assign
\* these two attributes directly, before any lifecycle call.
AssignTransactionId ==
    /\ ~Frozen(tx)
    /\ \E id \in ExplicitIds :
         Local("assign_transaction_id", NoneVal,
               Ok([tx EXCEPT !.transaction_id = id], "None"))

AssignNodeAccountId ==
    /\ ~Frozen(tx)
    /\ \E n \in ExplicitNodes :
         Local("assign_node_account_id", NoneVal,
               Ok([tx EXCEPT !.node_account_id = n], "None"))

SetTransactionMemoStep(m) ==
    Local("set_transaction_memo", NoneVal, set_transaction_memo(tx, m))

SetTransactionMemo == \E m \in Memos : SetTransactionMemoStep(m)

SetTokenIdStep(token_id) ==
    /\ tx.variant = "pause"
    /\ Local("set_token_id", NoneVal, set_token_id(tx, token_id))

SetTokenId == \E token_id \in TokenIds : SetTokenIdStep(token_id)

AddPendingAirdropIdsStep(ids) ==
    /\ tx.variant = "claim"
    /\ Local("add_pending_airdrop_ids", NoneVal,
             add_pending_airdrop_ids(tx, ids))

AddPendingAirdropIds == \E ids \in AddInputs : AddPendingAirdropIdsStep(ids)

FromProtoStep(proto) ==
    /\ tx.variant = "claim"
    /\ Local("_from_proto", NoneVal, claim_from_proto(tx, proto))

FromProto == \E proto \in FromProtoInputs : FromProtoStep(proto)

SetAssociationDetailsStep(d) ==
    /\ tx.variant = "associate"
    /\ Local("set_association_details", NoneVal,
             set_association_details(tx, d.account_id, d.token_ids))

SetAssociationDetails ==
    \E d \in AssociationDetails : SetAssociationDetailsStep(d)

FreezeWithStep(c, now) ==
    Local("freeze_with", NoneVal, freeze_with(tx, c, now))

FreezeWith == \E c \in Clients, now \in Times : FreezeWithStep(c, now)

SignStep(k, now) ==
    /\ Len(tx.signature_map) < MaxSigs
    /\ Local("sign", k, sign(tx, k, now))

Sign == \E k \in Keys, now \in Times : SignStep(k, now)

\* build_transaction_body called by the caller: returns the body or raises,
\* assigns nothing
BuildTransactionBodyStep(now) ==
    LET b == build_transaction_body(tx, now) IN
    Local("build_transaction_body", NoneVal,
          IF b.err = NoErr THEN Ok(tx, "body") ELSE Raise(tx, b.err))

BuildTransactionBody == \E now \in Times : BuildTransactionBodyStep(now)

ToProto ==
    Local("to_proto", NoneVal,
          IF to_proto(tx).err = NoErr THEN Ok(tx, "proto")
          ELSE Raise(tx, to_proto(tx).err))

IsSignedByStep(k) ==
    Local("is_signed_by", k,
          Ok(tx, IF is_signed_by(tx, public_bytes(k))
                 THEN "True" ELSE "False"))

IsSignedBy == \E k \in Keys : IsSignedByStep(k)

ExecuteCall(c, now, token_info, net) ==
    LET r == execute(tx, c, now, token_info, net) IN
    /\ Len(submitted) < MaxSubmits
    /\ Len(r.tx.signature_map) <= MaxSigs
    /\ Call("execute", c.name, r)
    /\ exec_signs' = IF r.signed
                     THEN [exec_signs EXCEPT ![c.operator_private_key] = @ + 1]
                     ELSE exec_signs

ExecuteStep(c, now, token_info, net) ==
    /\ ExecuteCall(c, now, token_info, net)
    /\ answers' = NoAnswers

Execute ==
    \E c \in Clients, now \in Times, token_info \in InfosFor(tx),
       net \in NetOutcomes : ExecuteStep(c, now, token_info, net)

Next ==
    \/ AssignTransactionId
    \/ AssignNodeAccountId
    \/ SetTransactionMemo
    \/ SetTokenId
    \/ AddPendingAirdropIds
    \/ SetAssociationDetails
    \/ FreezeWith
    \/ Sign
    \/ ToProto
    \/ IsSignedBy
    \/ Execute

Spec == Init /\ [][Next]_vars

\* ----------------------------------- the claim variant with all its methods
\* A TokenClaimAirdropTransaction constructed with any list and driven through
\* every method that reads or writes the list, _from_proto included.
InitClaim == InitOf({"claim"}, AnyInitLists)

NextClaim ==
    \/ AssignTransactionId
    \/ AssignNodeAccountId
    \/ AddPendingAirdropIds
    \/ FromProto
    \/ BuildTransactionBody
    \/ FreezeWith
    \/ Sign
    \/ Execute

SpecClaim == InitClaim /\ [][NextClaim]_vars

\* ---------------------------------- the pause variant and what it is told
\* A TokenPauseTransaction whose execute calls are recorded together with the
\* token metadata and the precheck code the client answered with.
PauseNetOutcomes == NetOutcomes \cup {"BUSY"}

ExecutePauseStep(c, now, token_info, net) ==
    /\ ExecuteCall(c, now, token_info, net)
    /\ answers' = [token_info |-> token_info, net |-> net,
                   printed |-> execute(tx, c, now, token_info, net).printed]

ExecutePause ==
    \E c \in Clients, now \in Times, token_info \in TokenInfos,
       net \in PauseNetOutcomes : ExecutePauseStep(c, now, token_info, net)

InitPause == InitOf({"pause"}, {<<>>})

NextPause ==
    \/ SetTokenId
    \/ BuildTransactionBody
    \/ FreezeWith
    \/ Sign
    \/ ExecutePause

SpecPause == InitPause /\ [][NextPause]_vars

\* ------------------------------------------- PendingAirdropId on its own
Accounts == {"s", "r"}
TokenArgs == {NoneRec, TokenId(1), TokenId(2)}
NftArgs == {NoneRec, NftId(1), NftId(2)}

\* a call with its arguments, what it returned or raised, and the message
\* the returned identifier converts to
PidCall(op, sender_id, receiver_id, token_id, nft_id, r) ==
    [op |-> op, sender_id |-> sender_id,
     receiver_id |-> receiver_id, token_id |-> token_id,
     nft_id |-> nft_id, err |-> r.err, val |-> r.val,
     proto |-> IF r.err = NoErr
               THEN PendingAirdropId_to_proto(r.val).proto
               ELSE NoneRec]

\* PendingAirdropId(sender_id=..., receiver_id=..., token_id=..., nft_id=...)
NewPendingAirdropId ==
    \E sender_id \in Accounts \cup {NoneVal},
       receiver_id \in Accounts \cup {NoneVal},
       token_id \in TokenArgs, nft_id \in NftArgs :
        /\ pid' = PidCall("new", sender_id, receiver_id, token_id, nft_id,
                           new_PendingAirdropId(sender_id, receiver_id,
                                                token_id, nft_id, 1))
        /\ UNCHANGED <<tx, submitted, exec_signs, last, answers, rc, ky,
                       heap, adders>>

\* PendingAirdropId._from_proto(proto)
PendingAirdropIdFromProto ==
    \E sender_id \in Accounts, receiver_id \in Accounts,
       token_id \in TokenArgs, nft_id \in NftArgs :
        /\ pid' = PidCall("_from_proto", sender_id, receiver_id, token_id,
                           nft_id,
                           PendingAirdropId_from_proto(
                               WireId(sender_id, receiver_id, token_id,
                                      nft_id), 1))
        /\ UNCHANGED <<tx, submitted, exec_signs, last, answers, rc, ky,
                       heap, adders>>

InitId == InitOf({"claim"}, {<<>>})

NextId == NewPendingAirdropId \/ PendingAirdropIdFromProto

SpecId == InitId /\ [][NextId]_vars

\* ------------------------------------------------------ TransactionReceipt
\* A receipt message on the wire: each of the four identifier fields is
\* absent, or present with its number; an absent field reads as number 0.
WireField ==
    { [present |-> FALSE, num |-> 0],
      [present |-> TRUE, num |-> 0],
      [present |-> TRUE, num |-> 5] }

ReceiptProtos ==
    [tokenID : WireField, topicID : WireField, accountID : WireField,
     fileID : WireField]

\* the identifiers built by the _from_proto of their classes
TopicId(i) == [topic_num |-> i]
AccountId(i) == [account_num |-> i]
FileId(i) == [file_num |-> i]

\* what a property returns or raises
Returned(v) == [err |-> NoErr, ret |-> v]
Raised(e) == [err |-> e, ret |-> NoneRec]

\* TransactionReceipt.tokenId
tokenId(proto) ==
    IF proto.tokenID.present /\ proto.tokenID.num # 0
    THEN Returned(TokenId(proto.tokenID.num))
    ELSE Returned(NoneRec)

\* TransactionReceipt.topicId
topicId(proto) ==
    IF proto.topicID.present /\ proto.topicID.num # 0
    THEN Returned(TopicId(proto.topicID.num))
    ELSE Returned(NoneRec)

\* TransactionReceipt.accountId
accountId(proto) ==
    IF proto.accountID.present /\ proto.accountID.num # 0
    THEN Returned(AccountId(proto.accountID.num))
    ELSE Returned(NoneRec)

\* TransactionReceipt.file_id: the module never binds the name FileId, so
\* the branch that converts the field raises NameError
file_id(proto) ==
    IF proto.fileID.present /\ proto.fileID.num # 0
    THEN Raised("name 'FileId' is not defined")
    ELSE Returned(NoneRec)

\* a property read on the receipt of a message, with what it gave
Read(op, proto, r) ==
    [op |-> op, proto |-> proto, err |-> r.err, ret |-> r.ret]

InitReceipt == InitOf({"claim"}, {<<>>})

NextReceipt ==
    \/ \E proto \in ReceiptProtos :
           /\ rc' = Read("tokenId", proto, tokenId(proto))
           /\ UNCHANGED <<tx, submitted, exec_signs, last, pid, answers, ky,
                          heap, adders>>
    \/ \E proto \in ReceiptProtos :
           /\ rc' = Read("topicId", proto, topicId(proto))
           /\ UNCHANGED <<tx, submitted, exec_signs, last, pid, answers, ky,
                          heap, adders>>
    \/ \E proto \in ReceiptProtos :
           /\ rc' = Read("accountId", proto, accountId(proto))
           /\ UNCHANGED <<tx, submitted, exec_signs, last, pid, answers, ky,
                          heap, adders>>
    \/ \E proto \in ReceiptProtos :
           /\ rc' = Read("file_id", proto, file_id(proto))
           /\ UNCHANGED <<tx, submitted, exec_signs, last, pid, answers, ky,
                          heap, adders>>

SpecReceipt == InitReceipt /\ [][NextReceipt]_vars

\* ------------------------------------------------ PrivateKey and PublicKey
\* A key object of the cryptography library is its family with its secret
\* (private key) or with the point of that secret (public key); every ECDSA
\* key is on secp256k1.  A byte string is its length with the value it
\* encodes; a DER document is its format with the key it describes; a hex
\* string is the bytes it spells.
PrivateKey(family, secret) ==
    [kind |-> "private", family |-> family, secret |-> secret]

\* PrivateKey.public_key
public_key(k) ==
    [kind |-> "public", family |-> k.family, point |-> [of |-> k.secret]]

PrivateKeys == {PrivateKey(f, s) : f \in {"ed25519", "ecdsa"}, s \in {1, 2}}

\* bytes.hex()
hex(b) == [hex |-> b]

\* bytes.fromhex(hex_str.removeprefix("0x")), the first step of every
\* from_string_ed25519, from_string_ecdsa and from_string_der, which hands the
\* bytes to the bytes loader of the same name
fromhex(hex_str) == hex_str.hex

\* PrivateKey.to_bytes_raw: the 32-byte seed, or the scalar as 32 bytes
PrivateKey_to_bytes_raw(k) ==
    IF k.family = "ed25519"
    THEN [len |-> 32, val |-> k.secret]
    ELSE [len |-> 32, val |-> k.secret]

\* PrivateKey.to_bytes_der
PrivateKey_to_bytes_der(k) ==
    [der |-> "PKCS8", family |-> k.family, secret |-> k.secret]

\* PublicKey.to_bytes_raw: 32 raw bytes, or the compressed point
PublicKey_to_bytes_raw(k) ==
    IF k.family = "ed25519"
    THEN [len |-> 32, val |-> k.point]
    ELSE [len |-> 33, val |-> k.point]

\* PublicKey.to_bytes_der
PublicKey_to_bytes_der(k) ==
    [der |-> "SubjectPublicKeyInfo", family |-> k.family, point |-> k.point]

\* PrivateKey.from_bytes_ed25519
PrivateKey_from_bytes_ed25519(seed) ==
    IF seed.len # 32
    THEN Raised("ValueError: Ed25519 seed must be exactly 32 bytes, got "
                    \o ToString(seed.len) \o ".")
    ELSE Returned(PrivateKey("ed25519", seed.val))

\* from_bytes_ecdsa without the test of the length: int.from_bytes and
\* derive_private_key take a scalar of any length
PrivateKey_from_bytes_ecdsa_any_len(scalar) ==
    IF scalar.val = 0
    THEN Raised("ValueError: Invalid ECDSA secp256k1 scalar")
    ELSE Returned(PrivateKey("ecdsa", scalar.val))

\* PrivateKey.from_bytes_ecdsa: derive_private_key refuses the scalar 0
PrivateKey_from_bytes_ecdsa(scalar) ==
    IF scalar.len # 32
    THEN Raised("ValueError: ECDSA (secp256k1) scalar must be 32 bytes, got "
                    \o ToString(scalar.len) \o ".")
    ELSE IF scalar.val = 0
    THEN Raised("ValueError: Invalid ECDSA secp256k1 scalar")
    ELSE Returned(PrivateKey("ecdsa", scalar.val))

\* PrivateKey.from_der
PrivateKey_from_der(der_bytes) ==
    IF ~("der" \in DOMAIN der_bytes) \/ der_bytes.der # "PKCS8"
    THEN Raised("ValueError: Could not parse DER private key")
    ELSE IF der_bytes.family \in {"ed25519", "ecdsa"}
    THEN Returned(PrivateKey(der_bytes.family, der_bytes.secret))
    ELSE Raised("ValueError: Unsupported private key type in DER "
                    \o "(not Ed25519 or ECDSA).")

\* PublicKey.from_bytes_ed25519
PublicKey_from_bytes_ed25519(pub) ==
    IF pub.len # 32
    THEN Raised("ValueError: Ed25519 public key must be 32 bytes, got "
                    \o ToString(pub.len) \o ".")
    ELSE Returned([kind |-> "public", family |-> "ed25519",
                   point |-> pub.val])

\* from_bytes_ecdsa that takes the uncompressed point only
PublicKey_from_bytes_ecdsa_65_only(pub) ==
    IF pub.len # 65
    THEN Raised("ValueError: ECDSA (secp256k1) pubkey must be 65 bytes, got "
                    \o ToString(pub.len) \o ".")
    ELSE Returned([kind |-> "public", family |-> "ecdsa", point |-> pub.val])

\* PublicKey.from_bytes_ecdsa: the compressed or the uncompressed point
PublicKey_from_bytes_ecdsa(pub) ==
    IF pub.len \notin {33, 65}
    THEN Raised("ValueError: ECDSA (secp256k1) pubkey must be 33 or 65 "
                    \o "bytes, got " \o ToString(pub.len) \o ".")
    ELSE Returned([kind |-> "public", family |-> "ecdsa", point |-> pub.val])

\* PublicKey.from_der
PublicKey_from_der(der_bytes) ==
    IF \/ ~("der" \in DOMAIN der_bytes)
       \/ der_bytes.der # "SubjectPublicKeyInfo"
    THEN Raised("ValueError: Could not parse DER public key")
    ELSE IF der_bytes.family \in {"ed25519", "ecdsa"}
    THEN Returned([kind |-> "public", family |-> der_bytes.family,
                   point |-> der_bytes.point])
    ELSE Raised("ValueError: Unsupported public key type in DER "
                    \o "(not Ed25519 or ECDSA).")

\* PrivateKey.sign: Ed25519 signs the data itself and draws nothing; ECDSA
\* signs the SHA-256 digest with a nonce the library draws for each call
PrivateKey_sign(k, data, nonce) ==
    IF k.family = "ed25519"
    THEN [alg |-> "ed25519", signer |-> k.secret, data |-> data]
    ELSE [alg |-> "ecdsa", signer |-> k.secret,
          digest |-> [sha256 |-> data], nonce |-> nonce]

\* verify that hashes the data of an ECDSA signature with SHA-1
PublicKey_verify_sha1(k, signature, data) ==
    IF k.family = "ed25519"
    THEN IF /\ signature.alg = "ed25519"
            /\ signature.signer = k.point.of
            /\ signature.data = data
         THEN NoErr ELSE "InvalidSignature"
    ELSE IF /\ signature.alg = "ecdsa"
            /\ signature.signer = k.point.of
            /\ signature.digest = [sha1 |-> data]
         THEN NoErr ELSE "InvalidSignature"

\* PublicKey.verify: returns, or raises InvalidSignature
PublicKey_verify(k, signature, data) ==
    IF k.family = "ed25519"
    THEN IF /\ signature.alg = "ed25519"
            /\ signature.signer = k.point.of
            /\ signature.data = data
         THEN NoErr ELSE "InvalidSignature"
    ELSE IF /\ signature.alg = "ecdsa"
            /\ signature.signer = k.point.of
            /\ signature.digest = [sha256 |-> data]
         THEN NoErr ELSE "InvalidSignature"

\* the key exported one way and loaded back with the loader of that way
Reload(k, via) ==
    IF k.kind = "private"
    THEN CASE via = "raw" ->
                IF k.family = "ed25519"
                THEN PrivateKey_from_bytes_ed25519(PrivateKey_to_bytes_raw(k))
                ELSE PrivateKey_from_bytes_ecdsa(PrivateKey_to_bytes_raw(k))
           [] via = "raw_hex" ->
                IF k.family = "ed25519"
                THEN PrivateKey_from_bytes_ed25519(
                    fromhex(hex(PrivateKey_to_bytes_raw(k))))
                ELSE PrivateKey_from_bytes_ecdsa(
                    fromhex(hex(PrivateKey_to_bytes_raw(k))))
           [] via = "der" -> PrivateKey_from_der(PrivateKey_to_bytes_der(k))
           [] via = "der_hex" ->
                PrivateKey_from_der(
                    fromhex(hex(PrivateKey_to_bytes_der(k))))
    ELSE CASE via = "raw" ->
                IF k.family = "ed25519"
                THEN PublicKey_from_bytes_ed25519(PublicKey_to_bytes_raw(k))
                ELSE PublicKey_from_bytes_ecdsa(PublicKey_to_bytes_raw(k))
           [] via = "raw_hex" ->
                IF k.family = "ed25519"
                THEN PublicKey_from_bytes_ed25519(
                    fromhex(hex(PublicKey_to_bytes_raw(k))))
                ELSE PublicKey_from_bytes_ecdsa(
                    fromhex(hex(PublicKey_to_bytes_raw(k))))
           [] via = "der" -> PublicKey_from_der(PublicKey_to_bytes_der(k))
           [] via = "der_hex" ->
                PublicKey_from_der(
                    fromhex(hex(PublicKey_to_bytes_der(k))))

\* a use of the key classes touches no transaction, identifier or receipt
KeyCall ==
    UNCHANGED <<tx, submitted, exec_signs, last, pid, answers, rc, heap,
                adders>>

InitKeys == InitOf({"claim"}, {<<>>})

NextKeys ==
    \/ \E k \in PrivateKeys \cup {public_key(p) : p \in PrivateKeys},
          via \in {"raw", "raw_hex", "der", "der_hex"} :
           /\ ky' = [NoKey EXCEPT !.op = "round_trip", !.key = k, !.via = via,
                                 !.loaded = Reload(k, via)]
           /\ KeyCall
    \/ \E len \in {31, 32, 33, 64, 65}, val \in {0, 1} :
         LET b == [len |-> len, val |-> val] IN
           \/ /\ ky' = [NoKey EXCEPT
                         !.op = "load", !.input = b,
                         !.via = "PrivateKey.from_bytes_ed25519",
                         !.loaded = PrivateKey_from_bytes_ed25519(b)]
              /\ KeyCall
           \/ /\ ky' = [NoKey EXCEPT
                         !.op = "load", !.input = b,
                         !.via = "PrivateKey.from_bytes_ecdsa",
                         !.loaded = PrivateKey_from_bytes_ecdsa(b)]
              /\ KeyCall
    \/ \E len \in {31, 32, 33, 64, 65}, val \in {1, 2} :
         LET b == [len |-> len, val |-> [of |-> val]] IN
           \/ /\ ky' = [NoKey EXCEPT
                         !.op = "load", !.input = b,
                         !.via = "PublicKey.from_bytes_ed25519",
                         !.loaded = PublicKey_from_bytes_ed25519(b)]
              /\ KeyCall
           \/ /\ ky' = [NoKey EXCEPT
                         !.op = "load", !.input = b,
                         !.via = "PublicKey.from_bytes_ecdsa",
                         !.loaded = PublicKey_from_bytes_ecdsa(b)]
              /\ KeyCall
    \/ \E k \in PrivateKeys, data \in {"m1", "m2"}, other \in {"m1", "m2"},
          nonce \in {1, 2} :
         LET s == PrivateKey_sign(k, data, nonce) IN
           /\ ky' = [NoKey EXCEPT
                     !.op = "sign_verify", !.key = k, !.data = data,
                     !.other = other, !.signature = s,
                     !.verified = PublicKey_verify(public_key(k), s, data),
                     !.verified_other =
                         PublicKey_verify(public_key(k), s, other)]
           /\ KeyCall
    \/ \E k \in PrivateKeys, via \in {"raw", "raw_hex", "der", "der_hex"},
          data \in {"m1", "m2"}, nonce \in {1, 2}, nonce_again \in {1, 2} :
         LET loaded == Reload(k, via) IN
           /\ ky' = [NoKey EXCEPT
                     !.op = "sign_round_trip", !.key = k, !.via = via,
                     !.data = data, !.loaded = loaded,
                     !.signature = PrivateKey_sign(k, data, nonce),
                     !.again = IF loaded.err = NoErr
                               THEN PrivateKey_sign(loaded.ret, data,
                                                    nonce_again)
                               ELSE NoneRec]
           /\ KeyCall

SpecKeys == InitKeys /\ [][NextKeys]_vars

\* ------------------------------------- the list objects of a claim variant
\* A Python list is an object: heap.cells[a] holds the elements of the list
\* at address a, heap.own is the address in _pending_airdrop_ids, and the
\* caller keeps the lists it passed in and the lists the getter returned.
\* tx.pending_airdrop_ids is the content of the transaction's own list.
MaxCells == 4

\* the IDs the caller puts into its lists
CallerIds == {1, 2}

\* __init__ that stores the caller's list itself: pending_airdrop_ids or []
claim_init_keep_reference(h, a) ==
    IF a = 0 \/ h.cells[a] = <<>>
    THEN [h EXCEPT !.op = "new", !.arg = a, !.cells = Append(@, <<>>),
                   !.own = Len(h.cells) + 1]
    ELSE [h EXCEPT !.op = "new", !.arg = a, !.own = a]

\* TokenClaimAirdropTransaction.__init__ with the list at address a (0: None):
\* list(pending_airdrop_ids or []) is a new list with the same elements
claim_init(h, a) ==
    [h EXCEPT !.op = "new", !.arg = a,
              !.cells = Append(@, IF a = 0 THEN <<>> ELSE h.cells[a]),
              !.own = Len(h.cells) + 1]

\* add_pending_airdrop_ids with the list at address a: the candidate is a new
\* list, and it becomes the transaction's list when it is valid
add_by_reference(h, t, a) ==
    LET r == add_pending_airdrop_ids(t, h.cells[a]) IN
    IF r.err # NoErr THEN [h EXCEPT !.op = "add", !.arg = a]
    ELSE [h EXCEPT !.op = "add", !.arg = a,
                   !.cells = Append(@, r.tx.pending_airdrop_ids),
                   !.own = Len(h.cells) + 1]

\* the pending_airdrop_ids property: list(self._pending_airdrop_ids), a new
\* list handed to the caller
get_pending_airdrop_ids(h) ==
    [h EXCEPT !.op = "get", !.arg = Len(h.cells) + 1,
              !.cells = Append(@, h.cells[h.own]),
              !.got = @ \cup {Len(h.cells) + 1}]

AddByReferenceStep(a) ==
    LET r == add_pending_airdrop_ids(tx, heap.cells[a]) IN
    /\ Len(heap.cells) < MaxCells
    /\ tx' = r.tx
    /\ last' = Called("add_pending_airdrop_ids", NoneVal, tx, r)
    /\ heap' = add_by_reference(heap, tx, a)
    /\ UNCHANGED <<submitted, exec_signs, pid, answers, rc, ky, adders>>

GetListStep ==
    /\ Len(heap.cells) < MaxCells
    /\ heap' = get_pending_airdrop_ids(heap)
    /\ UNCHANGED <<tx, submitted, exec_signs, last, pid, answers, rc, ky,
                   adders>>

\* the caller changes a list it holds: clear() for i = 0, append(ID i)
\* otherwise; the transaction reads its own list object as before
CallerMutateStep(a, i) ==
    LET elems == IF i = 0 THEN <<>>
                 ELSE Append(heap.cells[a], PendingAirdropId(i))
        h == [heap EXCEPT !.op = "mutate", !.arg = a, !.cells[a] = elems]
    IN  /\ i # 0 =>
              \A j \in 1..Len(heap.cells[a]) :
                  heap.cells[a][j] # PendingAirdropId(i)
        /\ heap' = h
        /\ tx' = [tx EXCEPT !.pending_airdrop_ids = h.cells[h.own]]
        /\ UNCHANGED <<submitted, exec_signs, last, pid, answers, rc, ky,
                       adders>>

\* the caller holds one list and constructs the transaction with it or
\* with None
InitAlias ==
    /\ \E ids \in InitLists \cup {IdRange(1, 2)}, a \in {0, 1} :
         LET h == claim_init([NoHeap EXCEPT !.cells = <<ids>>,
                                            !.passed = {1}], a)
         IN  /\ heap = h
             /\ tx = NewTransaction("claim", NoneRec, NoneVal,
                                    h.cells[h.own])
    /\ submitted = <<>>
    /\ exec_signs = [k \in OperatorKeys |-> 0]
    /\ last = NoCall
    /\ pid = NoPid
    /\ answers = NoAnswers
    /\ rc = NoRead
    /\ ky = NoKey
    /\ adders = NoAdders

NextAlias ==
    \/ \E a \in heap.passed \cup heap.got : AddByReferenceStep(a)
    \/ GetListStep
    \/ \E a \in heap.passed \cup heap.got, i \in {0} \cup CallerIds :
           CallerMutateStep(a, i)

SpecAlias == InitAlias /\ [][NextAlias]_vars

\* ------------------------------------- two add_pending_airdrop_ids at once
\* Two threads call add_pending_airdrop_ids on one Unfrozen transaction. A call
\* is three steps: line 73-74 reads the list and makes the candidate, line 75
\* validates the candidate, line 76 assigns it.
Threads == {1, 2}

RaceLists == { <<>>, IdRange(1, 1), IdRange(1, 9), IdRange(1, 10) }

RaceInputs ==
    { IdRange(1, 1), IdRange(10, 10), IdRange(11, 11), IdRange(10, 11),
      <<PendingAirdropId(3), Copy(PendingAirdropId(3))>> }

Adder(ids) == [pc |-> "idle", ids |-> ids, candidate |-> <<>>, err |-> NoErr]

\* lines 73-74: _require_not_frozen, then the candidate is a new list
read_list(t, a) ==
    LET e == require_not_frozen(t) IN
    IF e # NoErr THEN [a EXCEPT !.pc = "raised", !.err = e]
    ELSE [a EXCEPT !.pc = "read",
                   !.candidate = t.pending_airdrop_ids \o a.ids]

\* line 75: _validate_all(candidate)
validate_candidate(a) ==
    LET e == validate_all(a.candidate) IN
    IF e # NoErr THEN [a EXCEPT !.pc = "raised", !.err = e]
    ELSE [a EXCEPT !.pc = "validated"]

\* line 76 as an extend of the list in place
commit_candidate_in_place(t, a) ==
    [t EXCEPT !.pending_airdrop_ids = @ \o a.ids]

\* line 76: self._pending_airdrop_ids = candidate
commit_candidate(t, a) ==
    [t EXCEPT !.pending_airdrop_ids = a.candidate]

ReadList(th) ==
    /\ adders[th].pc = "idle"
    /\ adders' = [adders EXCEPT ![th] = read_list(tx, adders[th])]
    /\ UNCHANGED <<tx, submitted, exec_signs, last, pid, answers, rc, ky,
                   heap>>

ValidateCandidate(th) ==
    /\ adders[th].pc = "read"
    /\ adders' = [adders EXCEPT ![th] = validate_candidate(adders[th])]
    /\ UNCHANGED <<tx, submitted, exec_signs, last, pid, answers, rc, ky,
                   heap>>

CommitCandidate(th) ==
    /\ adders[th].pc = "validated"
    /\ tx' = commit_candidate(tx, adders[th])
    /\ adders' = [adders EXCEPT ![th].pc = "done"]
    /\ UNCHANGED <<submitted, exec_signs, last, pid, answers, rc, ky, heap>>

InitRace ==
    /\ \E ids \in RaceLists :
         tx = NewTransaction("claim", NoneRec, NoneVal, ids)
    /\ \E i1 \in RaceInputs, i2 \in RaceInputs :
         adders = [th \in Threads |-> Adder(IF th = 1 THEN i1 ELSE i2)]
    /\ submitted = <<>>
    /\ exec_signs = [k \in OperatorKeys |-> 0]
    /\ last = NoCall
    /\ pid = NoPid
    /\ answers = NoAnswers
    /\ rc = NoRead
    /\ ky = NoKey
    /\ heap = NoHeap

NextRace ==
    \/ \E th \in Threads : ReadList(th)
    \/ \E th \in Threads : ValidateCandidate(th)
    \/ \E th \in Threads : CommitCandidate(th)

SpecRace == InitRace /\ [][NextRace]_vars

\* ----------------------------------------------- the fee of a built body
\* tx.transaction_fee = ... : the callers assign the attribute directly,
\* with nothing, an amount or zero
AssignTransactionFee ==
    /\ ~Frozen(tx)
    /\ \E fee \in FeeVals \cup {Fee(0, 0)} :
         Local("assign_transaction_fee", NoneVal,
               Ok([tx EXCEPT !.transaction_fee = fee], "None"))

InitFee == InitOf({"pause", "associate"}, {<<>>})

NextFee ==
    \/ AssignTransactionFee
    \/ AssignTransactionId
    \/ AssignNodeAccountId
    \/ SetTokenId
    \/ SetAssociationDetails
    \/ BuildTransactionBody
    \/ FreezeWith
    \/ Sign

SpecFee == InitFee /\ [][NextFee]_vars

\* ------------------------------------------------------------------- claims
Setter ==
    \/ SetTransactionMemo
    \/ SetTokenId
    \/ AddPendingAirdropIds
    \/ SetAssociationDetails

\* the variant's part of a body built from the fields of t
DataOf(t) ==
    CASE t.variant = "pause" -> [token_pause |-> [token |-> t.token_id]]
      [] t.variant = "claim" ->
            [tokenClaimAirdrop |->
                [pending_airdrops |->
                    [i \in 1..Len(t.pending_airdrop_ids) |->
                        [sender_id |-> t.pending_airdrop_ids[i].sender_id,
                         receiver_id |-> t.pending_airdrop_ids[i].receiver_id,
                         fungible_token_type |->
                             t.pending_airdrop_ids[i].token_id,
                         non_fungible_token |->
                             t.pending_airdrop_ids[i].nft_id]]]]
      [] OTHER ->
            [tokenAssociate |->
                [account |-> t.account_id, tokens |-> t.token_ids]]

\* the body carries the transaction ID, node, memo and variant fields of t
BodyFrom(body, t) ==
    /\ body.transactionID = t.transaction_id
    /\ body.nodeAccountID = t.node_account_id
    /\ body.memo = t.memo
    /\ body.data = DataOf(t)

PairOf(k, body) ==
    [pubKeyPrefix |-> [pub |-> k], ed25519 |-> [signer |-> k, msg |-> body]]

HasPrefix(sigs, k) ==
    \E i \in 1..Len(sigs) : sigs[i].pubKeyPrefix = [pub |-> k]

C2_FreezeOneWay ==
    [][Frozen(tx) =>
        tx'.transaction_body_bytes = tx.transaction_body_bytes]_vars

\* a Frozen transaction whose fields were changed after the freeze and whose
\* body still carries the fields it was frozen with
C2_Witness ==
    /\ tx.variant = "associate"
    /\ Frozen(tx)
    /\ last.op = "set_association_details"
    /\ tx.transaction_body_bytes.data.tokenAssociate.tokens # tx.token_ids
    /\ Len(tx.signature_map) = 2
    /\ Len(submitted) >= 1

\* C3: in every Frozen state transaction_id and node_account_id are set, and
\* they keep their values from then on.
C3_IdsFixedOnceFrozen ==
    [][/\ Frozen(tx') =>
            /\ tx'.transaction_id # NoneRec
            /\ tx'.node_account_id # NoneVal
       /\ Frozen(tx) =>
            /\ tx'.transaction_id = tx.transaction_id
            /\ tx'.node_account_id = tx.node_account_id]_vars

\* sign has just frozen the transaction
C3_Witness ==
    /\ last.op = "sign"
    /\ last.froze
    /\ tx.transaction_id \in ExplicitIds
    /\ tx.node_account_id \in ExplicitNodes

\* C4: freeze_with on a Frozen transaction returns the transaction, changes
\* no field and asks the client for nothing.
C4_FreezeOfFrozenIsNoOp ==
    [][\A c \in Clients, now \in Times :
        (Frozen(tx) /\ FreezeWithStep(c, now)) =>
            /\ tx' = tx
            /\ submitted' = submitted
            /\ last'.err = NoErr
            /\ last'.ret = "self"
            /\ last'.asked = {}]_vars

C4_Witness ==
    /\ last.op = "freeze_with"
    /\ ~last.froze
    /\ Frozen(tx)
    /\ Len(tx.signature_map) > 0

\* C5: freeze_with on an Unfrozen transaction keeps an explicitly set
\* transaction ID and node, fills each of the two from the client only when it
\* is unset, builds the variant's body from the resulting fields and becomes
\* Frozen.
C5_FreezeResolvesIds ==
    [][\A c \in Clients, now \in Times :
        (~Frozen(tx) /\ FreezeWithStep(c, now)) =>
            /\ tx.transaction_id # NoneRec =>
                  tx'.transaction_id = tx.transaction_id
            /\ tx.node_account_id # NoneVal =>
                  tx'.node_account_id = tx.node_account_id
            /\ last'.err = NoErr =>
                  /\ tx.transaction_id = NoneRec =>
                        tx'.transaction_id =
                            [accountID |-> c.operator_account_id,
                             validStart |-> now]
                  /\ tx.node_account_id = NoneVal =>
                        tx'.node_account_id = c.node_account_id
                  /\ ("generate_transaction_id" \in last'.asked)
                        <=> (tx.transaction_id = NoneRec)
                  /\ ("node_account_id" \in last'.asked)
                        <=> (tx.node_account_id = NoneVal)
                  /\ Frozen(tx')
                  /\ BodyFrom(tx'.transaction_body_bytes, tx')
                  /\ tx' = [tx EXCEPT
                              !.transaction_id = tx'.transaction_id,
                              !.node_account_id = tx'.node_account_id,
                              !.transaction_body_bytes =
                                  tx'.transaction_body_bytes]]_vars

\* frozen by freeze_with with the caller's transaction ID and the client's node
C5_Witness ==
    /\ last.op = "freeze_with"
    /\ last.froze
    /\ last.asked = {"node_account_id"}
    /\ tx.transaction_id \in ExplicitIds
    /\ tx.node_account_id = "n1"

\* C6: freeze_with fails when neither the transaction nor the client supplies
\* the transaction/operator identity or the node; after a failed freeze_with
\* the transaction is still Unfrozen and its signature collection unchanged.
C6_FreezeFailsWithoutIds ==
    [][\A c \in Clients, now \in Times :
        (~Frozen(tx) /\ FreezeWithStep(c, now)) =>
            /\ (\/ tx.transaction_id = NoneRec /\ c.operator_account_id = NoneVal
                \/ tx.node_account_id = NoneVal /\ c.node_account_id = NoneVal)
                  => last'.err # NoErr
            /\ last'.err # NoErr =>
                  /\ ~Frozen(tx')
                  /\ tx'.signature_map = tx.signature_map]_vars

C6_Witness ==
    /\ last.op = "freeze_with"
    /\ last.err = NodeMsg
    /\ tx.transaction_id # NoneRec
    /\ ~Frozen(tx)

C8_SignAppendsOnePair ==
    [][\A k \in Keys, now \in Times :
        (SignStep(k, now) /\ last'.err = NoErr) =>
            /\ Frozen(tx')
            /\ tx'.signature_map =
                  Append(tx.signature_map,
                         PairOf(k, tx'.transaction_body_bytes))]_vars

\* two pairs of one key
C8_Witness ==
    /\ last.op = "sign"
    /\ last.err = NoErr
    /\ Len(tx.signature_map) = 2
    /\ tx.signature_map[1] = tx.signature_map[2]
    /\ tx.signature_map[2] = PairOf(last.arg, tx.transaction_body_bytes)

\* C9: execute appends an operator pair exactly when no pair has the
\* operator's public key as prefix; a submitted envelope is signed by the
\* operator; all execute calls together append at most one pair per operator.
C9_ExecuteSignsOnce ==
    [][last'.op = "execute" =>
        \A c \in Clients :
            c.name = last'.arg =>
            LET k == c.operator_private_key
                checked == k # NoneVal /\ Frozen(tx')
            IN  /\ checked /\ ~HasPrefix(tx.signature_map, k) =>
                      tx'.signature_map =
                          Append(tx.signature_map,
                                 PairOf(k, tx'.transaction_body_bytes))
                /\ ~(checked /\ ~HasPrefix(tx.signature_map, k)) =>
                      tx'.signature_map = tx.signature_map
                /\ Len(submitted') > Len(submitted) =>
                      /\ k # NoneVal
                      /\ HasPrefix(submitted'[Len(submitted')]
                                     .signedTransactionBytes.sigMap, k)
                /\ \A q \in OperatorKeys : exec_signs'[q] <= 1]_vars

\* a second submission, to which execute added no pair
C9_Witness ==
    /\ last.op = "execute"
    /\ ~last.signed
    /\ Len(submitted) = 2
    /\ exec_signs["kOp"] = 1
    /\ Len(tx.signature_map) = 1

\* C10: is_signed_by returns true exactly when some pair has the key's raw
\* bytes as prefix, and changes nothing.
C10_IsSignedByIsPure ==
    [][\A k \in Keys :
        IsSignedByStep(k) =>
            /\ tx' = tx
            /\ submitted' = submitted
            /\ last'.err = NoErr
            /\ (last'.ret = "True") <=> HasPrefix(tx.signature_map, k)
            /\ (last'.ret = "False") <=> ~HasPrefix(tx.signature_map, k)]_vars

\* the key's pair is the second of two
C10_Witness ==
    /\ last.op = "is_signed_by"
    /\ last.ret = "True"
    /\ Len(tx.signature_map) = 2
    /\ tx.signature_map[1].pubKeyPrefix # [pub |-> last.arg]
    /\ tx.signature_map[2].pubKeyPrefix = [pub |-> last.arg]

\* the envelope of the transaction as it stands
EnvelopeOf(t) ==
    [signedTransactionBytes |->
        [bodyBytes |-> t.transaction_body_bytes, sigMap |-> t.signature_map]]

\* C11: only execute submits, and it submits after freezing, signing with the
\* operator key and serializing: at a submission the transaction is Frozen and
\* signed by the operator, and the envelope holds the current body bytes and
\* every pair of the signature collection in order.
C11_ExecuteOrder ==
    [][Len(submitted') > Len(submitted) =>
        /\ last'.op = "execute"
        /\ Frozen(tx')
        /\ \A c \in Clients :
              c.name = last'.arg =>
                 /\ c.operator_private_key # NoneVal
                 /\ HasPrefix(tx'.signature_map, c.operator_private_key)
        /\ submitted'[Len(submitted')] = EnvelopeOf(tx')]_vars

\* one execute call froze the transaction, signed it and submitted it
C11_Witness ==
    /\ last.op = "execute"
    /\ last.froze
    /\ last.signed
    /\ last.sent = 1
    /\ submitted = <<EnvelopeOf(tx)>>
    /\ Len(tx.signature_map) = 1

\* C12: one execute call submits at most once; when the submission raises or
\* returns a precheck code other than OK the call raises after that single
\* submission.
C12_NoRetry ==
    [][last'.op = "execute" =>
        /\ last'.sent <= 1
        /\ Len(submitted') <= Len(submitted) + 1
        /\ \A c \in Clients :
              (c.name = last'.arg /\ last'.sent > 0) =>
                \A now \in Times, token_info \in InfosFor(tx),
                   net \in NetOutcomes \ {"OK"} :
                    ExecuteStep(c, now, token_info, net)
                        => /\ last'.sent = 1
                           /\ last'.err \in {TransportMsg, PrecheckMsg}
                           /\ last'.ret = "raise"
                           /\ last'.fetched = 0]_vars

\* a pause submission answered with a precheck code other than OK
C12_Witness ==
    /\ tx.variant = "pause"
    /\ last.op = "execute"
    /\ last.err = PrecheckMsg
    /\ last.sent = 1
    /\ Len(submitted) = 1

HasDuplicate(ids) ==
    \E i, j \in 1..Len(ids) :
        /\ i < j
        /\ ids[i].sender_id = ids[j].sender_id
        /\ ids[i].receiver_id = ids[j].receiver_id
        /\ ids[i].token_id = ids[j].token_id
        /\ ids[i].nft_id = ids[j].nft_id

\* the IDs serialized in a frozen body
SerializedIds(t) == t.transaction_body_bytes.data.tokenClaimAirdrop.pending_airdrops

\* C14: add_pending_airdrop_ids on an Unfrozen claim transaction raises when
\* the list followed by the argument has more than 10 elements, and then the
\* list is what it was.
C14_TooManyRejected ==
    [][\A ids \in AddInputs :
        (/\ ~Frozen(tx)
         /\ AddPendingAirdropIdsStep(ids)
         /\ Len(tx.pending_airdrop_ids) + Len(ids) > MAX_IDS) =>
            /\ last'.err = TooManyMsg
            /\ tx'.pending_airdrop_ids = tx.pending_airdrop_ids
            /\ tx' = tx]_vars

\* an eleventh ID was refused
C14_Witness ==
    /\ last.op = "add_pending_airdrop_ids"
    /\ last.err = TooManyMsg
    /\ tx.pending_airdrop_ids = IdRange(1, 10)
    /\ ~Frozen(tx)

\* C15: add_pending_airdrop_ids raises when the list followed by the argument
\* holds two equal IDs, inside the argument or across the two, the same object
\* or not, and then the list is what it was.
C15_DuplicateRejected ==
    [][\A ids \in AddInputs :
        (/\ ~Frozen(tx)
         /\ AddPendingAirdropIdsStep(ids)
         /\ HasDuplicate(tx.pending_airdrop_ids \o ids)) =>
            /\ last'.err \in {DuplicateMsg, TooManyMsg}
            /\ Len(tx.pending_airdrop_ids) + Len(ids) <= MAX_IDS
                  => last'.err = DuplicateMsg
            /\ tx'.pending_airdrop_ids = tx.pending_airdrop_ids
            /\ tx' = tx]_vars

\* an ID equal to a stored one, held in another object, was refused
C15_Witness ==
    /\ last.op = "add_pending_airdrop_ids"
    /\ last.err = DuplicateMsg
    /\ tx.pending_airdrop_ids = <<Copy(PendingAirdropId(1))>>
    /\ ~Frozen(tx)

\* C16: in every state of a claim transaction the list has at most 10
\* elements and no two equal elements.
C16_ListBounded ==
    tx.variant = "claim" =>
        /\ Len(tx.pending_airdrop_ids) <= MAX_IDS
        /\ ~HasDuplicate(tx.pending_airdrop_ids)

\* the claim transaction's own part of C17 for the body built from t by a
\* call that ended with err
BuildOutcome(t, err, available) ==
    /\ t.pending_airdrop_ids = <<>> => err = TooFewMsg
    /\ (/\ Len(t.pending_airdrop_ids) \in MIN_IDS..MAX_IDS
        /\ ~HasDuplicate(t.pending_airdrop_ids)
        /\ available) => err = NoErr

\* C17: building the body of a claim transaction, by build_transaction_body,
\* sign, freeze_with or execute, raises the too-few error on an empty list and
\* succeeds on 1 to 10 unique IDs once transaction ID and node are available.
C17_BuildNeedsOneToTen ==
    [][~Frozen(tx) =>
        /\ \A now \in Times :
              BuildTransactionBodyStep(now) =>
                 BuildOutcome(tx, last'.err,
                              /\ tx.transaction_id # NoneRec
                              /\ tx.node_account_id # NoneVal)
        /\ \A k \in Keys, now \in Times :
              SignStep(k, now) =>
                 /\ BuildOutcome(tx, last'.err,
                                 /\ tx.transaction_id # NoneRec
                                 /\ tx.node_account_id # NoneVal)
                 /\ last'.err = NoErr =>
                       Len(SerializedIds(tx')) = Len(tx.pending_airdrop_ids)
        /\ \A c \in Clients, now \in Times :
              (/\ FreezeWithStep(c, now)
               /\ tx.transaction_id # NoneRec
                     \/ c.operator_account_id # NoneVal) =>
                 BuildOutcome(tx, last'.err,
                              \/ tx.node_account_id # NoneVal
                              \/ c.node_account_id # NoneVal)
        /\ (last'.op = "execute" /\ tx.pending_airdrop_ids = <<>>) =>
              /\ last'.err # NoErr
              /\ last'.sent = 0
              /\ ~Frozen(tx')]_vars

\* a body was built from ten IDs
C17_Witness ==
    /\ last.op = "build_transaction_body"
    /\ last.err = NoErr
    /\ tx.pending_airdrop_ids = IdRange(1, 10)
    /\ ~Frozen(tx)

\* C18: once a claim transaction is Frozen no call changes its list, and the
\* list is the one serialized in the body bytes.
C18_ListFixedOnceFrozen ==
    [][tx.variant = "claim" =>
        /\ Frozen(tx) => tx'.pending_airdrop_ids = tx.pending_airdrop_ids
        /\ Frozen(tx') =>
              SerializedIds(tx') = pending_airdrop_ids_to_proto(tx')]_vars

C20_ExactlyOneAsset ==
    LET one == (pid.token_id = NoneRec) # (pid.nft_id = NoneRec) IN
    /\ (/\ pid.op = "new"
        /\ pid.sender_id # NoneVal
        /\ pid.receiver_id # NoneVal) =>
            /\ (pid.err = NoErr) <=> one
            /\ ~one => pid.err = ExactlyOneMsg /\ pid.val = NoneRec
    /\ pid.op = "_from_proto" =>
            /\ (pid.err = NoErr) <=> one
            /\ ~one => /\ pid.err \in {BothTypesMsg, NeitherTypeMsg}
                       /\ pid.val = NoneRec
    /\ pid.err = NoErr /\ pid.op # "init" =>
            /\ pid.val.sender_id = pid.sender_id
            /\ pid.val.receiver_id = pid.receiver_id
            /\ pid.val.token_id = pid.token_id
            /\ pid.val.nft_id = pid.nft_id

\* a constructor call with both assets was refused
C20_Witness ==
    /\ pid.op = "new"
    /\ pid.sender_id # NoneVal
    /\ pid.receiver_id # NoneVal
    /\ pid.token_id # NoneRec
    /\ pid.nft_id # NoneRec
    /\ pid.err = ExactlyOneMsg


\* ------------------------------------------------------- the pause variant
\* the client an execute call named by its argument was made with
ClientNamed(name) == CHOOSE c \in Clients : c.name = name

\* the latest call was a pause execute that got as far as the pre-flight
\* check: the freeze succeeded and the client had an operator key
PreflightReached ==
    /\ last'.op = "execute"
    /\ answers' # NoAnswers
    /\ Frozen(tx')
    /\ ClientNamed(last'.arg).operator_private_key # NoneVal

\* C21: building the body of a TokenPauseTransaction that has no token id
\* fails with "Token ID is required for pausing a token."; sign, freeze_with
\* and execute of such a transaction fail, and a transaction without token id
\* is never Frozen, has no signature pair, and nothing has been submitted.
C21_NoTokenNoFreeze ==
    /\ [](tx.variant = "pause" /\ tx.token_id = NoneVal =>
            /\ ~Frozen(tx)
            /\ tx.signature_map = <<>>
            /\ submitted = <<>>)
    /\ [][tx.variant = "pause" /\ tx.token_id = NoneVal =>
            /\ \A now \in Times :
                 /\ build_transaction_body(tx, now).err = TokenIdMsg
                 /\ BuildTransactionBodyStep(now) => last'.err = TokenIdMsg
                 /\ \A k \in Keys :
                      SignStep(k, now) => last'.err = TokenIdMsg /\ tx' = tx
            /\ last'.op \in {"freeze_with", "execute"} =>
                 /\ last'.err # NoErr
                 /\ last'.sent = 0
                 /\ ~Frozen(tx')]_vars

\* the body of a pause transaction without token id was asked for and refused
C21_Witness ==
    /\ tx.variant = "pause"
    /\ tx.token_id = NoneVal
    /\ last.op = "build_transaction_body"
    /\ last.err = TokenIdMsg

\* C22: when the token metadata says deleted, or names no pause key, a pause
\* execute fails and submits nothing in that call; once the pre-flight check
\* is reached the error is the deleted error for a deleted token (also when
\* the pause key is missing too) and the pause-key error otherwise.
C22_PreflightRefuses ==
    [][(/\ last'.op = "execute"
        /\ answers' # NoAnswers
        /\ \/ answers'.token_info.deleted
           \/ ~answers'.token_info.pause_key) =>
            /\ last'.err # NoErr
            /\ last'.sent = 0
            /\ last'.fetched = 0
            /\ submitted' = submitted
            /\ PreflightReached =>
                 last'.err = IF answers'.token_info.deleted
                             THEN DeletedMsg ELSE PauseKeyMsg]_vars

\* a frozen, signed pause transaction was executed for a token that is
\* deleted and has no pause key, and the deleted error was raised
C22_Witness ==
    /\ last.op = "execute"
    /\ answers # NoAnswers
    /\ answers.token_info.deleted
    /\ ~answers.token_info.pause_key
    /\ Frozen(tx)
    /\ tx.signature_map # <<>>
    /\ last.err = DeletedMsg
    /\ last.sent = 0

\* C23: a token that is already paused (not deleted, pause key present) is no
\* error: the call does what it does for the same token not paused, and once
\* the pre-flight check is reached the pause is submitted exactly once.
C23_PausedIsNoError ==
    [][(/\ last'.op = "execute"
        /\ answers' # NoAnswers
        /\ answers'.token_info.paused
        /\ ~answers'.token_info.deleted
        /\ answers'.token_info.pause_key) =>
            /\ \A now \in Times :
                 LET r == execute(tx, ClientNamed(last'.arg), now,
                                  [answers'.token_info EXCEPT !.paused = FALSE],
                                  answers'.net)
                 IN  /\ tx' = r.tx
                     /\ last'.err = r.err
                     /\ last'.ret = r.ret
                     /\ last'.fetched = r.fetched
                     /\ submitted' = submitted \o r.sent
            /\ PreflightReached =>
                 /\ last'.sent = 1
                 /\ Len(submitted') = Len(submitted) + 1
                 /\ answers'.net = "OK" =>
                      last'.err = NoErr /\ last'.ret = "receipt"]_vars

\* a pause of an already paused token was submitted and returned the receipt
C23_Witness ==
    /\ last.op = "execute"
    /\ answers # NoAnswers
    /\ answers.token_info.paused
    /\ answers.printed
    /\ last.err = NoErr
    /\ last.ret = "receipt"
    /\ last.sent = 1

\* C24: once a pause is submitted and the node answers, the precheck code
\* alone decides: OK fetches the receipt exactly once and returns it, any
\* other code raises the error carrying the code's number and name and no
\* receipt is fetched.
C24_PrecheckDecides ==
    [][(/\ last'.op = "execute"
        /\ answers' # NoAnswers
        /\ last'.sent = 1
        /\ answers'.net # "raise") =>
            /\ answers'.net = "OK" =>
                 /\ last'.err = NoErr
                 /\ last'.ret = "receipt"
                 /\ last'.fetched = 1
            /\ answers'.net = "INVALID_SIGNATURE" =>
                 /\ last'.err = "Error during transaction submission: "
                                    \o "7 (INVALID_SIGNATURE)"
                 /\ last'.fetched = 0
            /\ answers'.net = "BUSY" =>
                 /\ last'.err = "Error during transaction submission: "
                                    \o "12 (BUSY)"
                 /\ last'.fetched = 0]_vars

\* a submitted pause was answered with BUSY and raised without a receipt
C24_Witness ==
    /\ last.op = "execute"
    /\ answers # NoAnswers
    /\ answers.net = "BUSY"
    /\ last.sent = 1
    /\ last.err = "Error during transaction submission: 12 (BUSY)"
    /\ last.fetched = 0

\* ------------------------------------------------------ TransactionReceipt
\* the wire field a property reads, and the identifier class it answers with
FieldRead ==
    IF rc.op = "tokenId" THEN rc.proto.tokenID
    ELSE IF rc.op = "topicId" THEN rc.proto.topicID
    ELSE IF rc.op = "accountId" THEN rc.proto.accountID
    ELSE rc.proto.fileID

TypedAs(i) ==
    IF rc.op = "tokenId" THEN TokenId(i)
    ELSE IF rc.op = "topicId" THEN TopicId(i)
    ELSE IF rc.op = "accountId" THEN AccountId(i)
    ELSE FileId(i)

\* C25: reading tokenId, topicId, accountId or file_id of a well-formed
\* receipt never fails, and returns the identifier of its class exactly when
\* the wire field is present with a number other than zero, None otherwise.
C25_OptionalIdentifiers ==
    rc.op # "init" =>
        /\ rc.err = NoErr
        /\ rc.ret = IF FieldRead.present /\ FieldRead.num # 0
                    THEN TypedAs(FieldRead.num) ELSE NoneRec

\* ------------------------------------------------ PrivateKey and PublicKey
\* the raw and the DER export of a key of either class
RawOf(k) ==
    IF k.kind = "private"
    THEN PrivateKey_to_bytes_raw(k) ELSE PublicKey_to_bytes_raw(k)

DerOf(k) ==
    IF k.kind = "private"
    THEN PrivateKey_to_bytes_der(k) ELSE PublicKey_to_bytes_der(k)

\* C26: a private or public key of either family, exported to raw bytes or
\* raw hex and loaded with the raw loader of its family, or exported to DER
\* (bytes or hex) and loaded with the DER loader, loads as a key of the same
\* class and family whose raw and DER exports equal those of the original.
C26_RoundTrip ==
    ky.op = "round_trip" =>
        /\ ky.loaded.err = NoErr
        /\ ky.loaded.ret.kind = ky.key.kind
        /\ ky.loaded.ret.family = ky.key.family
        /\ RawOf(ky.loaded.ret) = RawOf(ky.key)
        /\ DerOf(ky.loaded.ret) = DerOf(ky.key)

\* an ECDSA public key went through its raw hex export and came back
C26_Witness ==
    /\ ky.op = "round_trip"
    /\ ky.key.kind = "public"
    /\ ky.key.family = "ecdsa"
    /\ ky.via = "raw_hex"
    /\ ky.loaded.err = NoErr
    /\ RawOf(ky.loaded.ret) = [len |-> 33, val |-> ky.key.point]

\* C27: for a key of either family, the signature of a message verifies
\* with the key's public key against that message, and fails with
\* InvalidSignature against every other message.
C27_SignThenVerify ==
    ky.op = "sign_verify" =>
        /\ ky.verified = NoErr
        /\ ky.other # ky.data => ky.verified_other = "InvalidSignature"

\* an ECDSA signature was verified against its message and against another
C27_Witness ==
    /\ ky.op = "sign_verify"
    /\ ky.key.family = "ecdsa"
    /\ ky.other # ky.data
    /\ ky.verified = NoErr
    /\ ky.verified_other = "InvalidSignature"

\* C28: a raw loader given bytes of a wrong length (not 32 for an Ed25519
\* seed, an Ed25519 public key or an ECDSA scalar; neither 33 nor 65 for an
\* ECDSA public point) raises the ValueError that names the length and
\* returns no key.
C28_WrongLengthRejected ==
    LET got == ToString(ky.input.len) \o "." IN
    ky.op = "load" =>
        /\ (ky.via = "PrivateKey.from_bytes_ed25519" /\ ky.input.len # 32) =>
             /\ ky.loaded.ret = NoneRec
             /\ ky.loaded.err =
                  "ValueError: Ed25519 seed must be exactly 32 bytes, got "
                      \o got
        /\ (ky.via = "PrivateKey.from_bytes_ecdsa" /\ ky.input.len # 32) =>
             /\ ky.loaded.ret = NoneRec
             /\ ky.loaded.err =
                  "ValueError: ECDSA (secp256k1) scalar must be 32 bytes, got "
                      \o got
        /\ (ky.via = "PublicKey.from_bytes_ed25519" /\ ky.input.len # 32) =>
             /\ ky.loaded.ret = NoneRec
             /\ ky.loaded.err =
                  "ValueError: Ed25519 public key must be 32 bytes, got "
                      \o got
        /\ (/\ ky.via = "PublicKey.from_bytes_ecdsa"
            /\ ky.input.len \notin {33, 65}) =>
             /\ ky.loaded.ret = NoneRec
             /\ ky.loaded.err =
                  "ValueError: ECDSA (secp256k1) pubkey must be 33 or 65 "
                      \o "bytes, got " \o got

\* an ECDSA scalar of 31 bytes, not zero, was refused
C28_Witness ==
    /\ ky.op = "load"
    /\ ky.via = "PrivateKey.from_bytes_ecdsa"
    /\ ky.input = [len |-> 31, val |-> 1]
    /\ ky.loaded.err # NoErr
    /\ ky.loaded.ret = NoneRec

\* C29: a private key of either family, exported to raw or DER and loaded
\* back, signs every message with the same signature bytes as the original.
C29_SameSignatureAfterRoundTrip ==
    ky.op = "sign_round_trip" =>
        /\ ky.loaded.err = NoErr
        /\ ky.again = ky.signature

\* --------------------------------------------------- the order of the list
\* C30: a successful add_pending_airdrop_ids(ids) leaves the list equal to
\* the list before the call followed by ids in their order, changes no other
\* field and returns the transaction itself.
C30_AddAppendsInOrder ==
    [][\A ids \in AddInputs :
         (AddPendingAirdropIdsStep(ids) /\ last'.err = NoErr) =>
            /\ tx' = [tx EXCEPT
                        !.pending_airdrop_ids = tx.pending_airdrop_ids \o ids]
            /\ \A i \in 1..Len(tx.pending_airdrop_ids) :
                 tx'.pending_airdrop_ids[i] = tx.pending_airdrop_ids[i]
            /\ \A i \in 1..Len(ids) :
                 tx'.pending_airdrop_ids[Len(tx.pending_airdrop_ids) + i]
                     = ids[i]
            /\ last'.ret = "self"]_vars

\* IDs 2..10 were added to a list that held ID 1, and the list reads 1..10
C30_Witness ==
    /\ tx.variant = "claim"
    /\ last.op = "add_pending_airdrop_ids"
    /\ last.err = NoErr
    /\ last.ret = "self"
    /\ tx.pending_airdrop_ids = IdRange(1, 1) \o IdRange(2, 10)

\* ------------------------------------------------------ the fee in the body
\* the fee the body of t is to carry: the fee the caller set, whatever its
\* value, and the default of the variant when none was set
FeeToCarry(t) ==
    IF t.transaction_fee # NoneRec THEN t.transaction_fee
    ELSE IF t.variant = "pause" THEN Fee(3, 0)
    ELSE Fee(0, 2000000)

\* C31: the fee in a built body is the transaction_fee the caller set,
\* whenever one is set, zero included, and the default fee of the variant
\* (2,000,000 for the base, 3,000,000,000 for a pause) only when none is set.
C31_FeeInBody ==
    [][/\ \A now \in Times :
            (BuildTransactionBodyStep(now) /\ last'.err = NoErr) =>
                build_transaction_body(tx, now).body.transactionFee
                    = FeeToCarry(tx)
       /\ (~Frozen(tx) /\ Frozen(tx')) =>
            tx'.transaction_body_bytes.transactionFee = FeeToCarry(tx')]_vars

C33_SignaturesOverFrozenBody ==
    tx.signature_map # <<>> =>
        /\ Frozen(tx)
        /\ \A i \in 1..Len(tx.signature_map) :
              \E k \in Keys :
                  tx.signature_map[i] = PairOf(k, tx.transaction_body_bytes)

\* two keys have signed the frozen body, the operator's inside execute
C33_Witness ==
    /\ Frozen(tx)
    /\ Len(tx.signature_map) = 2
    /\ tx.signature_map[1] = PairOf("kA", tx.transaction_body_bytes)
    /\ tx.signature_map[2] = PairOf("kOp", tx.transaction_body_bytes)
    /\ last.op = "execute"
    /\ last.signed

\* ------------------------------------------------------------ a failed sign
\* the body of t cannot be built: no node, no transaction ID and no operator,
\* or the variant's own field is missing
CannotBuild(t) ==
    \/ t.node_account_id = NoneVal
    \/ t.transaction_id = NoneRec /\ t.operator_account_id = NoneVal
    \/ t.variant = "pause" /\ t.token_id = NoneVal
    \/ t.variant = "claim" /\ t.pending_airdrop_ids = <<>>
    \/ t.variant = "associate"
           /\ (t.account_id = NoneVal \/ t.token_ids = <<>>)

\* C34: sign on an Unfrozen transaction whose body cannot be built raises,
\* and the transaction is as it was: Unfrozen, with the same signature
\* collection; a sign raises in no other case, and after it the setters are
\* not refused as on a frozen transaction.
C34_FailedSignLeavesUnfrozen ==
    [][/\ \A k \in Keys, now \in Times :
            (~Frozen(tx) /\ SignStep(k, now)) =>
                /\ CannotBuild(tx) <=> last'.err # NoErr
                /\ last'.err # NoErr =>
                      /\ last'.err = build_transaction_body(tx, now).err
                      /\ ~Frozen(tx')
                      /\ tx'.signature_map = tx.signature_map
                      /\ tx' = tx
                      /\ submitted' = submitted
       /\ (last'.op = "sign" /\ last'.err # NoErr) => ~Frozen(tx')
       /\ (last.op = "sign" /\ last.err # NoErr /\ Setter) =>
            last'.err # ImmutableMsg]_vars

\* a sign failed for the missing node and left a transaction that has its
\* transaction ID and its token without body bytes and without pairs
C34_Witness ==
    /\ last.op = "sign"
    /\ last.err = NodeMsg
    /\ tx.variant = "pause"
    /\ tx.token_id # NoneVal
    /\ tx.transaction_id # NoneRec
    /\ ~Frozen(tx)
    /\ tx.signature_map = <<>>

\* ------------------------------------------------- a failed pause execute
\* the errors of the pre-flight check and of a precheck code other than OK
PauseFailures ==
    {DeletedMsg, PauseKeyMsg} \cup
    {PrecheckMsgOf(net) : net \in PauseNetOutcomes \ {"OK", "raise"}}

\* a token that passes the pre-flight check
HealthyToken == [deleted |-> FALSE, pause_key |-> TRUE, paused |-> FALSE]

\* C35: a pause execute that fails in the pre-flight check or on a precheck
\* code other than OK leaves the transaction Frozen and signed by the
\* operator, with the body bytes and pairs of the serialized envelope (those
\* the same call leaves when it succeeds, and those of the envelope when one
\* was submitted); the next execute with the same client adds no pair and
\* changes no body bytes.
C35_FailedExecuteKeepsLifecycle ==
    [][/\ (/\ last'.op = "execute"
           /\ answers' # NoAnswers
           /\ last'.err \in PauseFailures) =>
            LET c == ClientNamed(last'.arg) IN
            /\ Frozen(tx')
            /\ HasPrefix(tx'.signature_map, c.operator_private_key)
            /\ \A now \in Times :
                  tx' = execute(tx, c, now, HealthyToken, "OK").tx
            /\ Frozen(tx) =>
                  tx'.transaction_body_bytes = tx.transaction_body_bytes
            /\ last'.sent = 1 =>
                  submitted'[Len(submitted')] = EnvelopeOf(tx')
       /\ (/\ last.op = "execute"
           /\ answers # NoAnswers
           /\ last.err \in PauseFailures
           /\ last'.op = "execute"
           /\ last'.arg = last.arg) =>
            /\ ~last'.signed
            /\ tx'.signature_map = tx.signature_map
            /\ tx'.transaction_body_bytes = tx.transaction_body_bytes]_vars

\* one execute froze the transaction, signed it, submitted it and raised for
\* the precheck code BUSY
C35_Witness ==
    /\ last.op = "execute"
    /\ answers # NoAnswers
    /\ answers.net = "BUSY"
    /\ last.err = PrecheckMsgOf("BUSY")
    /\ last.froze
    /\ last.signed
    /\ Frozen(tx)
    /\ tx.signature_map = <<PairOf("kOp", tx.transaction_body_bytes)>>
    /\ submitted = <<EnvelopeOf(tx)>>

\* ------------------------------------------------- the list of a frozen claim
\* C36: in every state in which a claim transaction is Frozen its list has
\* between 1 and 10 elements and no two equal elements, whatever list the
\* constructor was given.
C36_FrozenListValid ==
    (tx.variant = "claim" /\ Frozen(tx)) =>
        /\ Len(tx.pending_airdrop_ids) >= 1
        /\ Len(tx.pending_airdrop_ids) <= 10
        /\ ~HasDuplicate(tx.pending_airdrop_ids)

\* ------------------------------------------------------ the list is not shared
\* C37: the transaction's list is no list the caller holds: whatever the
\* caller does to a list it passed to the constructor or to
\* add_pending_airdrop_ids, or to a list the getter returned, the
\* transaction's list keeps its elements.
C37_ListNotAliased ==
    /\ [](heap.own \notin heap.passed \cup heap.got)
    /\ [][\A a \in heap.passed \cup heap.got, i \in {0} \cup CallerIds :
            CallerMutateStep(a, i) =>
                /\ tx'.pending_airdrop_ids = tx.pending_airdrop_ids
                /\ heap'.cells[heap'.own] = heap.cells[heap.own]
                /\ heap'.own = heap.own]_vars

\* the caller appended to the list the getter returned, after an add of the
\* list it passed, and the transaction's list differs from both
C37_Witness ==
    /\ heap.op = "mutate"
    /\ heap.arg \in heap.got
    /\ last.op = "add_pending_airdrop_ids"
    /\ last.err = NoErr
    /\ tx.pending_airdrop_ids # <<>>
    /\ tx.pending_airdrop_ids = heap.cells[heap.own]
    /\ \A a \in heap.passed \cup heap.got :
          heap.cells[a] # tx.pending_airdrop_ids

\* ------------------------------------------ two add_pending_airdrop_ids at once
\* C38: from an Unfrozen claim variant whose list has at most 10 unique IDs, in
\* every interleaving of two add_pending_airdrop_ids calls (read the list,
\* validate the candidate, assign the candidate) the list of the transaction
\* has at most 10 elements and no two equal IDs, after every assignment.
C38_ConcurrentAddsKeepListValid ==
    /\ Len(tx.pending_airdrop_ids) <= MAX_IDS
    /\ ~HasDuplicate(tx.pending_airdrop_ids)

\* both calls read the list before either assigned; both assigned, and the
\* IDs of the first call are lost
C38_Witness ==
    /\ adders # NoAdders
    /\ \A th \in Threads : adders[th].pc = "done"
    /\ tx.pending_airdrop_ids = adders[2].candidate
    /\ Len(adders[1].candidate) = Len(adders[2].candidate)
    /\ adders[1].ids # adders[2].ids
    /\ Len(tx.pending_airdrop_ids) = MAX_IDS

\* --------------------------------------------------- the slot of a signature
\* the slot of the SignaturePair oneof that holds the signature
SlotOf(sig_pair) ==
    IF "ed25519" \in DOMAIN sig_pair THEN "ed25519"
    ELSE IF "ECDSA_secp256k1" \in DOMAIN sig_pair THEN "ECDSA_secp256k1"
    ELSE "none"

====
